---- MODULE Spec2Model ----
(***************************************************************************)
(* Camera stream lifecycle manager of SHAD (src/src/js/services/           *)
(* CameraManager.js, class CameraManager).                                 *)
(*                                                                         *)
(* The manager runs on one JavaScript event loop: every handler (user      *)
(* operation, DOM or engine event, timer callback, promise continuation)   *)
(* runs to completion, so every handler is one atomic action.  A handler   *)
(* is written as an operator from the manager state (a record with one     *)
(* field per variable) to the manager state, so that the calls a handler   *)
(* makes (setupGrid -> destroyAllCameras -> destroyCamera -> cleanupHls)   *)
(* compose as they do in the code.                                         *)
(*                                                                         *)
(* Session objects (cameraData) are identified by their slot index while   *)
(* they are in the cameras map.  destroyAllCameras removes the objects     *)
(* from the map; callbacks that still hold such an object are kept in the  *)
(* orphan* variables.                                                      *)
(***************************************************************************)
EXTENDS Integers, Sequences, FiniteSets, TLC

\* ---------------------------------------------------------------- bounds
NumSlots == 2          \* camera slots of the grid (the code allows 1..18)
MaxTimers == 1         \* cap on the pending timers of one kind
MaxRecov == 2          \* cap on the pending recovery timers of a session
MaxRetryTimers == 2    \* cap on the pending retry timers of a session
MaxStallSeen == 3      \* cap on stallCount (the 'stalled' listener has none)
MaxRetrySeen == 2      \* cap on retryCount in the specifications that cap it

\* ------------------------------------------------------- program constants
MAX_STALL_COUNT == 2
SEQUENTIAL_TIMEOUT_MS == 15000
STABILIZE_MS == 500
maxRetryAttempts == 10
InPlaceRetries == 3
baseRetryDelay == 3000
maxRetryDelay == 120000
JITTER_MS == 1000
COOLDOWN_MS == 300000

\* Delays of retries are kept in units of 1/Scale ms, in which the base
\* delay 3000 * 1.5^n is a whole number for every n the backoff branch of
\* scheduleRetry can see (n < maxRetryAttempts).
Scale == 2 ^ (maxRetryAttempts - 1)

Slots == 0 .. (NumSlots - 1)
UrlKinds == {"none", "m3u8", "rtsp", "other"}
HlsModes == {"hlsjs", "native", "unsupported"}

VARIABLES
  now,                \* Date.now(), advanced only by Tick
  isPageVisible, isHDMode, hlsMode, url,
  healthCheckInterval, firstCheckTimers, hdStartTimers,
  isInitializing, initQueue, stabTimers,
  cameras, grid,
  isDestroyed, everDestroyed, hls, hlsLoading, engines,
  retryTimeout, retryTimers, retryCount, stallCount, lastPlaybackTime,
  lastCheckTime, recovTimers, recovByCheck, recovOld, paused, src,
  videoListeners, playPromises,
  seqTimers, seqDeaf, orphanRecov, orphanPromise,
  jitter,             \* what the next Math.random() * 1000 gives, in 1/Scale ms
  retryDelay,         \* delay of the pending retry timer, in 1/Scale ms
  placeholder,        \* message part of the element's data-placeholder
  calendarService,    \* the CalendarService singleton
  sensorService,      \* the SensorService singleton
  weatherService,     \* the WeatherService singleton
  cleanupThrows,      \* the call of the next cleanup that throws, if any
  currentTime,        \* element.currentTime of each slot, in seconds
  visibilityHandler   \* the 'visibilitychange' listener is registered

vars == << now, isPageVisible, isHDMode, hlsMode, url,
           healthCheckInterval, firstCheckTimers, hdStartTimers,
           isInitializing, initQueue, stabTimers, cameras, grid,
           isDestroyed, everDestroyed, hls, hlsLoading, engines,
           retryTimeout, retryTimers, retryCount, stallCount, lastPlaybackTime,
           lastCheckTime, recovTimers, recovByCheck, recovOld, paused, src,
           videoListeners,
           playPromises, seqTimers, seqDeaf, orphanRecov, orphanPromise,
           jitter, retryDelay, placeholder,
           calendarService, sensorService, weatherService, cleanupThrows,
           currentTime, visibilityHandler >>

\* The manager state as one record.
St ==
  [ now |-> now, isPageVisible |-> isPageVisible, isHDMode |-> isHDMode,
    hlsMode |-> hlsMode, url |-> url,
    healthCheckInterval |-> healthCheckInterval,
    firstCheckTimers |-> firstCheckTimers, hdStartTimers |-> hdStartTimers,
    isInitializing |-> isInitializing, initQueue |-> initQueue,
    stabTimers |-> stabTimers, cameras |-> cameras, grid |-> grid,
    isDestroyed |-> isDestroyed, everDestroyed |-> everDestroyed,
    hls |-> hls, hlsLoading |-> hlsLoading, engines |-> engines,
    retryTimeout |-> retryTimeout, retryTimers |-> retryTimers,
    retryCount |-> retryCount,
    stallCount |-> stallCount, lastPlaybackTime |-> lastPlaybackTime,
    lastCheckTime |-> lastCheckTime, recovTimers |-> recovTimers,
    recovByCheck |-> recovByCheck, recovOld |-> recovOld,
    paused |-> paused, src |-> src, videoListeners |-> videoListeners,
    playPromises |-> playPromises, seqTimers |-> seqTimers,
    seqDeaf |-> seqDeaf,
    orphanRecov |-> orphanRecov, orphanPromise |-> orphanPromise,
    jitter |-> jitter, retryDelay |-> retryDelay,
    placeholder |-> placeholder,
    calendarService |-> calendarService, sensorService |-> sensorService,
    weatherService |-> weatherService, cleanupThrows |-> cleanupThrows,
    currentTime |-> currentTime, visibilityHandler |-> visibilityHandler ]

\* The step that ends in state record r.
Apply(r) ==
  /\ now' = r.now
  /\ isPageVisible' = r.isPageVisible
  /\ isHDMode' = r.isHDMode
  /\ hlsMode' = r.hlsMode
  /\ url' = r.url
  /\ healthCheckInterval' = r.healthCheckInterval
  /\ firstCheckTimers' = r.firstCheckTimers
  /\ hdStartTimers' = r.hdStartTimers
  /\ isInitializing' = r.isInitializing
  /\ initQueue' = r.initQueue
  /\ stabTimers' = r.stabTimers
  /\ cameras' = r.cameras
  /\ grid' = r.grid
  /\ isDestroyed' = r.isDestroyed
  /\ everDestroyed' = r.everDestroyed
  /\ hls' = r.hls
  /\ hlsLoading' = r.hlsLoading
  /\ engines' = r.engines
  /\ retryTimeout' = r.retryTimeout
  /\ retryTimers' = r.retryTimers
  /\ retryCount' = r.retryCount
  /\ stallCount' = r.stallCount
  /\ lastPlaybackTime' = r.lastPlaybackTime
  /\ lastCheckTime' = r.lastCheckTime
  /\ recovTimers' = r.recovTimers
  /\ recovByCheck' = r.recovByCheck
  /\ recovOld' = r.recovOld
  /\ paused' = r.paused
  /\ src' = r.src
  /\ videoListeners' = r.videoListeners
  /\ playPromises' = r.playPromises
  /\ seqTimers' = r.seqTimers
  /\ seqDeaf' = r.seqDeaf
  /\ orphanRecov' = r.orphanRecov
  /\ orphanPromise' = r.orphanPromise
  /\ jitter' = r.jitter
  /\ retryDelay' = r.retryDelay
  /\ placeholder' = r.placeholder
  /\ calendarService' = r.calendarService
  /\ sensorService' = r.sensorService
  /\ weatherService' = r.weatherService
  /\ cleanupThrows' = r.cleanupThrows
  /\ currentTime' = r.currentTime
  /\ visibilityHandler' = r.visibilityHandler

\* The caps of the model: a handler runs only where its result stays inside.
Within(r) ==
  /\ r.firstCheckTimers <= MaxTimers
  /\ r.hdStartTimers <= MaxTimers
  /\ Len(r.stabTimers) <= MaxTimers
  /\ Len(SelectSeq(r.seqTimers, LAMBDA e : ~e.cur)) <= MaxTimers
  /\ r.orphanRecov <= MaxTimers
  /\ \A i \in Slots :
       /\ r.recovTimers[i] <= MaxRecov
       /\ r.retryTimers[i] <= MaxRetryTimers
       /\ r.seqDeaf[i] <= MaxTimers
       /\ r.stallCount[i] <= MaxStallSeen

\* ------------------------------------------------------------- helpers
RECURSIVE SumUpTo(_, _)
SumUpTo(f, k) == IF k < 0 THEN 0 ELSE f[k] + SumUpTo(f, k - 1)

\* The slots of a set, in index order (Map.forEach visits in insertion
\* order, and setupGrid inserts in index order).
InOrder(S) == SelectSeq([k \in 1 .. NumSlots |-> k - 1], LAMBDA i : i \in S)

\* A session that is in the map and not destroyed.
Live(s, i) == i \in s.cameras /\ ~s.isDestroyed[i]

\* The placeholder is the camera's name and, on a second line, the
\* message; the model keeps the message ("" for the name alone).
setPlaceholder(s, i, message) ==
  IF ~Live(s, i) THEN s ELSE [s EXCEPT !.placeholder[i] = message]

\* ------------------------------------------------------ health monitor
stopHealthMonitor(s) == [s EXCEPT !.healthCheckInterval = FALSE]

startHealthMonitor(s) ==
  [stopHealthMonitor(s) EXCEPT !.firstCheckTimers = @ + 1,
                               !.healthCheckInterval = TRUE]

\* ------------------------------------------------------ stream engine
\* hls[i]: "null", or the engine's state: "created" (attachMedia called,
\* MEDIA_ATTACHED not yet delivered), "attached", "failed" (loadSource or
\* attachMedia threw).  engines[i] counts the engines created for sink i
\* and not yet destroyed.
\* The calls cleanupHls makes on an engine, in its order: the listeners
\* are taken off one by one, each in its own try; stopLoad, detachMedia
\* and destroy share one try.
EngineCalls == << "off", "stopLoad", "detachMedia", "destroy" >>

\* The calls of one cleanup or reset that can throw; cleanupThrows names
\* the one that throws the next time it is made, "none" if none does.
Faults == {"none", "stopLoad", "detachMedia", "destroy", "pause"}

\* The calls of cleanupHls that return when call f throws: those ahead of
\* f for a call of the shared try, all of them otherwise.
RECURSIVE completedCalls(_, _)
completedCalls(calls, f) ==
  IF calls = << >> THEN << >>
  ELSE IF Head(calls) = f /\ f # "off" THEN << >>
  ELSE << Head(calls) >> \o completedCalls(Tail(calls), f)

\* The engine is disposed when destroy() has returned.
disposes(f) ==
  \E k \in 1 .. Len(completedCalls(EngineCalls, f)) :
    completedCalls(EngineCalls, f)[k] = "destroy"

\* cleanupHls with "cameraData.hls = null" moved inside the try block: an
\* exception of stopLoad(), detachMedia() or destroy() leaves the reference.
cleanupHlsNullInsideTry(s, i) ==
  IF s.hls[i] # "null"
    THEN IF disposes(s.cleanupThrows)
           THEN [s EXCEPT !.hls[i] = "null", !.hlsLoading[i] = FALSE,
                          !.engines[i] = @ - 1]
           ELSE [s EXCEPT !.cleanupThrows = "none"]
    ELSE s

cleanupHls(s, i) ==
  IF s.hls[i] # "null"
    THEN [s EXCEPT !.hls[i] = "null", !.hlsLoading[i] = FALSE,
                   !.engines[i] = IF disposes(s.cleanupThrows) THEN @ - 1 ELSE @,
                   !.cleanupThrows =
                      IF disposes(s.cleanupThrows) THEN @ ELSE "none"]
    ELSE s

\* element.pause(); element.removeAttribute('src'); element.load() inside
\* one try: nothing of it takes effect when pause() throws.
resetElement(s, i) ==
  IF s.cleanupThrows = "pause" THEN [s EXCEPT !.cleanupThrows = "none"]
  ELSE [s EXCEPT !.paused[i] = TRUE, !.src[i] = FALSE]

\* retryTimeout[i]: "null", or the id of a timer: "backoff" / "cooldown"
\* while that timer is pending, "stale" once it has fired without the field
\* being reset.  retryTimers[i] counts the retry timers actually pending.
clearRetry(s, i) ==
  IF s.retryTimeout[i] # "null"
    THEN [s EXCEPT !.retryTimers[i] =
                      IF s.retryTimeout[i] = "stale" THEN @ ELSE @ - 1,
                   !.retryTimeout[i] = "null", !.retryDelay[i] = 0]
    ELSE s

\* Math.pow(b, n) for whole b and n.
RECURSIVE Pow(_, _)
Pow(b, n) == IF n <= 0 THEN 1 ELSE b * Pow(b, n - 1)

\* scheduleRetry: baseRetryDelay * Math.pow(1.5, n) in 1/Scale ms, for
\* n < maxRetryAttempts.
baseDelay(n) ==
  baseRetryDelay * Pow(3, n) * Pow(2, maxRetryAttempts - 1 - n)

\* scheduleRetry's delay with the factor 2 in the place of 1.5.
retryDelayDoubling(n, j) ==
  LET d == baseRetryDelay * Pow(2, n) * Scale + j
  IN IF d < maxRetryDelay * Scale THEN d ELSE maxRetryDelay * Scale

\* scheduleRetry: Math.min(baseDelay + jitter, maxRetryDelay) in 1/Scale ms.
retryDelayFor(n, j) ==
  LET d == baseDelay(n) + j
  IN IF d < maxRetryDelay * Scale THEN d ELSE maxRetryDelay * Scale

\* scheduleRetry without the timer of its cooldown branch: at
\* maxRetryAttempts the session is given up.
scheduleRetryGivesUp(s, i) ==
  IF ~Live(s, i) THEN s
  ELSE LET s1 == clearRetry(s, i)
       IN IF s1.retryCount[i] >= maxRetryAttempts
            THEN s1
            ELSE [s1 EXCEPT !.retryDelay[i] =
                               retryDelayFor(s1.retryCount[i], s1.jitter),
                            !.retryCount[i] = @ + 1,
                            !.retryTimeout[i] = "backoff",
                            !.retryTimers[i] = @ + 1]

\* scheduleRetry without its clearTimeout: the pending timer is left alone
\* and its handle overwritten.
scheduleRetryKeepsPending(s, i) ==
  IF ~Live(s, i) THEN s
  ELSE IF s.retryCount[i] >= maxRetryAttempts
    THEN [s EXCEPT !.retryCount[i] = 0,
                   !.retryTimeout[i] = "cooldown",
                   !.retryTimers[i] = @ + 1,
                   !.retryDelay[i] = COOLDOWN_MS * Scale]
    ELSE [s EXCEPT !.retryDelay[i] = retryDelayFor(s.retryCount[i], s.jitter),
                   !.retryCount[i] = @ + 1,
                   !.retryTimeout[i] = "backoff",
                   !.retryTimers[i] = @ + 1]

\* scheduleRetry with "retryCount > maxRetryAttempts" as the test of its
\* cooldown branch.
scheduleRetryLateCooldown(s, i) ==
  IF ~Live(s, i) THEN s
  ELSE LET s1 == clearRetry(s, i)
       IN IF s1.retryCount[i] > maxRetryAttempts
            THEN [s1 EXCEPT !.retryCount[i] = 0,
                            !.retryTimeout[i] = "cooldown",
                            !.retryTimers[i] = @ + 1,
                            !.retryDelay[i] = COOLDOWN_MS * Scale]
            ELSE [s1 EXCEPT !.retryDelay[i] =
                               retryDelayFor(IF s1.retryCount[i] < maxRetryAttempts
                                               THEN s1.retryCount[i]
                                               ELSE maxRetryAttempts - 1,
                                             s1.jitter),
                            !.retryCount[i] = @ + 1,
                            !.retryTimeout[i] = "backoff",
                            !.retryTimers[i] = @ + 1]

scheduleRetry(s, i) ==
  IF ~Live(s, i) THEN s
  ELSE LET s1 == clearRetry(s, i)
       IN IF s1.retryCount[i] >= maxRetryAttempts
            THEN [s1 EXCEPT !.retryCount[i] = 0,
                            !.retryTimeout[i] = "cooldown",
                            !.retryTimers[i] = @ + 1,
                            !.retryDelay[i] = COOLDOWN_MS * Scale]
            ELSE [s1 EXCEPT !.retryDelay[i] =
                               retryDelayFor(s1.retryCount[i], s1.jitter),
                            !.retryCount[i] = @ + 1,
                            !.retryTimeout[i] = "backoff",
                            !.retryTimers[i] = @ + 1]

\* initHlsStream without its call of cleanupHls: the engine the session
\* holds is overwritten, not released.
initHlsStreamNoCleanup(s, i, ex) ==
  IF ~Live(s, i) THEN s
  ELSE LET s2 == [s EXCEPT !.hls[i] = IF i \in ex THEN "failed" ELSE "created",
                           !.hlsLoading[i] = i \notin ex,
                           !.engines[i] = @ + 1]
       IN IF i \in ex
            THEN scheduleRetry(setPlaceholder(s2, i, "Error initializing feed"), i)
            ELSE s2

\* ex: the slots whose engine throws in loadSource / attachMedia.
initHlsStream(s, i, ex) ==
  IF ~Live(s, i) THEN s
  ELSE LET s1 == cleanupHls(s, i)
           s2 == [s1 EXCEPT !.hls[i] = IF i \in ex THEN "failed" ELSE "created",
                            !.hlsLoading[i] = i \notin ex,
                            !.engines[i] = @ + 1]
       IN IF i \in ex
            THEN scheduleRetry(setPlaceholder(s2, i, "Error initializing feed"), i)
            ELSE s2

\* element.play() clears the paused flag at once; its promise settles later.
play(s, i, kind) ==
  [s EXCEPT !.paused[i] = FALSE, !.playPromises[i] = @ \cup {kind}]

\* initializeStream without its test of the .m3u8 suffix: every URL that is
\* not rtsp is handed to hls.js.
initializeStreamAlwaysHls(s, i, ex) ==
  IF ~Live(s, i) THEN s
  ELSE IF ~s.isPageVisible THEN s
  ELSE IF s.url[i] = "rtsp"
    THEN play([s EXCEPT !.src[i] = TRUE], i, "rtsp")
  ELSE initHlsStream(s, i, ex)

initializeStream(s, i, ex) ==
  IF ~Live(s, i) THEN s
  ELSE IF ~s.isPageVisible THEN s
  ELSE IF s.url[i] = "rtsp"
    THEN play([s EXCEPT !.src[i] = TRUE], i, "rtsp")
  ELSE IF s.url[i] = "m3u8"
    THEN IF s.hlsMode = "hlsjs" THEN initHlsStream(s, i, ex)
         ELSE IF s.hlsMode = "native"
           THEN play([s EXCEPT !.src[i] = TRUE], i, "src")
         ELSE setPlaceholder(s, i, "HLS not supported")
  ELSE play([s EXCEPT !.src[i] = (s.url[i] # "none")], i, "src")

RECURSIVE initAll(_, _, _)
initAll(s, q, ex) ==
  IF q = << >> THEN s
  ELSE initAll(initializeStream(s, Head(q), ex), Tail(q), ex)

\* --------------------------------------------------------- sequencer
\* One closure (onPlaying, onTimeout, resolved, timeoutId) per start of a
\* slot.  An unresolved closure always keeps its 'playing' listener.
\*   seqTimers    the pending 15 s timers of the unresolved closures, in
\*                the order they were scheduled, which is the order they
\*                are due in: slot is the slot of the closure's session
\*                (NoSlot once the session has left the map), cur says that
\*                cameraData.initTimeout names this timer, due is its
\*                deadline
\*   seqDeaf[i]   the unresolved closures on the session of slot i whose
\*                timer destroyCamera cleared
NoSlot == NumSlots

\* The closure initNextCamera sets up for slot i: cameraData.initTimeout is
\* overwritten, so an earlier timer of the session can no longer be cleared.
startWaiting(s, i) ==
  [s EXCEPT !.seqTimers =
     [k \in 1 .. Len(@) |->
        IF @[k].slot = i THEN [@[k] EXCEPT !.cur = FALSE] ELSE @[k]]
     \o << [slot |-> i, cur |-> TRUE, due |-> s.now + SEQUENTIAL_TIMEOUT_MS] >>]

RECURSIVE initNextCamera(_, _)
initNextCamera(s, ex) ==
  IF s.initQueue = << >>
    THEN LET s1 == [s EXCEPT !.isInitializing = FALSE]
         IN IF s1.isPageVisible /\ ~s1.healthCheckInterval
              THEN startHealthMonitor(s1) ELSE s1
    ELSE LET i == Head(s.initQueue)
             s1 == [s EXCEPT !.initQueue = Tail(@)]
         IN IF ~Live(s1, i) \/ ~s1.isPageVisible
              THEN initNextCamera(s1, ex)
              ELSE initializeStream(startWaiting(s1, i), i, ex)

sequentialInit(s, q, ex) ==
  IF q = << >>
    THEN LET s1 == [s EXCEPT !.isInitializing = FALSE]
         IN IF s1.isPageVisible /\ ~s1.healthCheckInterval
              THEN startHealthMonitor(s1) ELSE s1
    ELSE initNextCamera([s EXCEPT !.isInitializing = TRUE, !.initQueue = q], ex)

\* ------------------------------------------------- session registry
\* The fields of slot i when no session is in the map for it.
Blank(s, i) ==
  [s EXCEPT !.isDestroyed[i] = FALSE, !.everDestroyed[i] = FALSE,
            !.hls[i] = "null", !.hlsLoading[i] = FALSE, !.engines[i] = 0,
            !.retryTimeout[i] = "null", !.retryTimers[i] = 0,
            !.retryDelay[i] = 0, !.placeholder[i] = "",
            !.retryCount[i] = 0, !.stallCount[i] = 0,
            !.lastPlaybackTime[i] = 0, !.lastCheckTime[i] = 0,
            !.recovTimers[i] = 0, !.recovByCheck[i] = 0, !.recovOld[i] = 0,
            !.paused[i] = TRUE, !.src[i] = FALSE,
            !.videoListeners[i] = FALSE, !.playPromises[i] = {},
            !.seqDeaf[i] = 0]

\* createCameraElement(index, camera, false): setupGrid is its only caller.
createCameraElement(s, i) ==
  [Blank(s, i) EXCEPT !.cameras = @ \cup {i}, !.grid = @ \cup {i},
                      !.videoListeners[i] = TRUE,
                      !.placeholder[i] = IF s.url[i] # "none" THEN "Loading..."
                                         ELSE "No feed configured"]

\* destroyCamera with cleanupHls only for a session that is destroyed
\* already: the first call keeps the engine, the second releases it.
destroyCameraLazyCleanup(s, i) ==
  IF i \notin s.cameras THEN s
  ELSE LET s1 == clearRetry([s EXCEPT !.isDestroyed[i] = TRUE,
                                      !.everDestroyed[i] = TRUE,
                                      !.recovOld[i] = s.recovTimers[i]], i)
           isCur(e) == e.slot = i /\ e.cur
           s2 == [s1 EXCEPT !.seqDeaf[i] =
                               @ + Len(SelectSeq(s1.seqTimers, isCur)),
                            !.seqTimers =
                               SelectSeq(@, LAMBDA e : ~isCur(e))]
           s3 == IF s.isDestroyed[i] THEN cleanupHls(s2, i) ELSE s2
       IN [s3 EXCEPT !.videoListeners[i] = FALSE, !.paused[i] = TRUE,
                     !.src[i] = FALSE, !.retryCount[i] = 0,
                     !.stallCount[i] = 0, !.lastPlaybackTime[i] = 0,
                     !.lastCheckTime[i] = 0]

destroyCamera(s, i) ==
  IF i \notin s.cameras THEN s
  ELSE LET s1 == clearRetry([s EXCEPT !.isDestroyed[i] = TRUE,
                                      !.everDestroyed[i] = TRUE,
                                      !.recovOld[i] = s.recovTimers[i]], i)
           isCur(e) == e.slot = i /\ e.cur
           s2 == [s1 EXCEPT !.seqDeaf[i] =
                               @ + Len(SelectSeq(s1.seqTimers, isCur)),
                            !.seqTimers =
                               SelectSeq(@, LAMBDA e : ~isCur(e))]
           s3 == cleanupHls(s2, i)
       IN [resetElement(s3, i) EXCEPT
                     !.videoListeners[i] = FALSE, !.retryCount[i] = 0,
                     !.stallCount[i] = 0, !.lastPlaybackTime[i] = 0,
                     !.lastCheckTime[i] = 0]

RECURSIVE destroyEach(_, _)
destroyEach(s, q) ==
  IF q = << >> THEN s ELSE destroyEach(destroyCamera(s, Head(q)), Tail(q))

RECURSIVE blankEach(_, _)
blankEach(s, q) ==
  IF q = << >> THEN s ELSE blankEach(Blank(s, Head(q)), Tail(q))

\* cameras.clear() drops the session objects; what stays behind of them are
\* the callbacks nothing cancelled: the sequencer timers left pending, the
\* recovery timers and the pending play() promises of the direct path.
\* (An unresolved closure without a timer stays on an element that has left
\* the document without a source and never plays again: it is dropped.)
destroyAllCameras(s) ==
  LET s1 == [s EXCEPT !.initQueue = << >>, !.isInitializing = FALSE]
      s2 == destroyEach(s1, InOrder(s1.cameras))
      s3 == [s2 EXCEPT
               !.seqTimers = [k \in 1 .. Len(@) |->
                                [@[k] EXCEPT !.slot = NoSlot, !.cur = FALSE]],
               !.orphanRecov = @ + SumUpTo(s2.recovTimers, NumSlots - 1),
               !.orphanPromise =
                  [i \in Slots |-> @[i] \/ "src" \in s2.playPromises[i]],
               !.grid = {}, !.cameras = {}]
  IN blankEach(s3, InOrder(Slots))

RECURSIVE createEach(_, _)
createEach(s, q) ==
  IF q = << >> THEN s ELSE createEach(createCameraElement(s, Head(q)), Tail(q))

\* setupGrid without the isHDMode branch: the sequencer starts the slots.
setupGridStaggered(s, ex) ==
  LET s1 == destroyAllCameras(s)
      s2 == createEach(s1, InOrder(Slots))
      camerasToInit == InOrder({i \in Slots : s2.url[i] # "none"})
  IN sequentialInit(s2, camerasToInit, ex)

setupGrid(s, ex) ==
  LET s1 == destroyAllCameras(s)
      s2 == createEach(s1, InOrder(Slots))
      camerasToInit == InOrder({i \in Slots : s2.url[i] # "none"})
  IN IF s2.isHDMode
       THEN LET s3 == initAll(s2, camerasToInit, ex)
            IN IF s3.isPageVisible THEN startHealthMonitor(s3) ELSE s3
       ELSE sequentialInit(s2, camerasToInit, ex)

\* ----------------------------------------------------------- recovery
\* recoverCamera without the reset of retryCount.
recoverCameraKeepsRetryCount(s, i) ==
  IF ~Live(s, i) THEN s
  ELSE LET s1 == [s EXCEPT !.stallCount[i] = 0, !.lastPlaybackTime[i] = 0,
                           !.lastCheckTime[i] = 0]
           s2 == cleanupHls(s1, i)
       IN [s2 EXCEPT !.paused[i] = TRUE, !.src[i] = FALSE,
                     !.recovTimers[i] = @ + 1]

recoverCamera(s, i) ==
  IF ~Live(s, i) THEN s
  ELSE LET s1 == [s EXCEPT !.stallCount[i] = 0, !.lastPlaybackTime[i] = 0,
                           !.lastCheckTime[i] = 0, !.retryCount[i] = 0]
           s2 == cleanupHls(s1, i)
       IN [resetElement(s2, i) EXCEPT !.recovTimers[i] = @ + 1]

\* forceRecover(index): the configuration of every slot exists.
forceRecover(s, i) == recoverCamera(s, i)

\* ------------------------------------------------------- health check
\* What one evaluation reads from the video element and the clock:
\*   cur     element.currentTime: "zero", or a position other than zero that
\*           is the "same" as lastPlaybackTime or has "moved" from it by
\*           more than 0.1
\*   enough  element.readyState >= 2
\*   err     element.error is set
\*   ended   element.ended
\*   since   now - lastCheckTime >= HEALTH_CHECK_INTERVAL_MS - 500
Obs == [cur : {"zero", "same", "moved"}, enough : BOOLEAN, err : BOOLEAN,
        ended : BOOLEAN, since : BOOLEAN]

\* recoverCamera called by a health check: the re-initialization timer is
\* counted in recovByCheck too (such a timer is due 1 s after a check, so
\* before the next tick of the 5 s interval).
recoverFromCheck(s, i) ==
  LET r == recoverCamera(s, i)
  IN [r EXCEPT !.recovByCheck[i] = @ + (r.recovTimers[i] - s.recovTimers[i])]

\* The session is evaluated by a health check (it is not skipped).
Evaluated(s, i) ==
  /\ Live(s, i)
  /\ s.url[i] # "none"
  /\ s.retryTimeout[i] = "null"
  /\ ~s.isInitializing

\* checkAllCameraHealth without the play() of its pause branch.
checkCameraNoResume(s, i, o) ==
  IF ~Evaluated(s, i) THEN s
  ELSE
    LET hasProgressed == \/ o.cur = "moved"
                         \/ o.cur = "zero" /\ s.lastPlaybackTime[i] # 0
        longEnough == s.lastCheckTime[i] # 0 /\ o.since
        isPlaying == ~s.paused[i] /\ ~o.ended
        hasEnoughData == o.enough
        hasHls == s.hls[i] # "null"
        s1 == [s EXCEPT !.lastCheckTime[i] = 1]
        bump == [s1 EXCEPT !.stallCount[i] = @ + 1]
        atMax == bump.stallCount[i] >= MAX_STALL_COUNT
        s2 == IF ~hasHls /\ s.url[i] = "m3u8" THEN recoverFromCheck(s1, i)
              ELSE IF o.err THEN recoverFromCheck(s1, i)
              ELSE IF isPlaying /\ hasEnoughData /\ ~hasProgressed /\ longEnough
                THEN IF atMax THEN recoverFromCheck(bump, i) ELSE bump
              ELSE IF ~hasEnoughData /\ hasHls /\ longEnough
                THEN IF atMax THEN recoverFromCheck(bump, i) ELSE bump
              ELSE IF ~isPlaying /\ hasHls
                THEN IF atMax THEN recoverFromCheck(bump, i) ELSE bump
              ELSE IF hasProgressed THEN [s1 EXCEPT !.stallCount[i] = 0]
              ELSE s1
    IN [s2 EXCEPT !.lastPlaybackTime[i] = IF o.cur = "zero" THEN 0 ELSE 1]

\* checkAllCameraHealth with the stalled-playback test ahead of the
\* element.error test.
checkCameraStallFirst(s, i, o) ==
  IF ~Evaluated(s, i) THEN s
  ELSE
    LET hasProgressed == \/ o.cur = "moved"
                         \/ o.cur = "zero" /\ s.lastPlaybackTime[i] # 0
        longEnough == s.lastCheckTime[i] # 0 /\ o.since
        isPlaying == ~s.paused[i] /\ ~o.ended
        hasEnoughData == o.enough
        hasHls == s.hls[i] # "null"
        s1 == [s EXCEPT !.lastCheckTime[i] = 1]
        bump == [s1 EXCEPT !.stallCount[i] = @ + 1]
        atMax == bump.stallCount[i] >= MAX_STALL_COUNT
        s2 == IF ~hasHls /\ s.url[i] = "m3u8" THEN recoverFromCheck(s1, i)
              ELSE IF isPlaying /\ hasEnoughData /\ ~hasProgressed /\ longEnough
                THEN IF atMax THEN recoverFromCheck(bump, i) ELSE bump
              ELSE IF o.err THEN recoverFromCheck(s1, i)
              ELSE IF ~hasEnoughData /\ hasHls /\ longEnough
                THEN IF atMax THEN recoverFromCheck(bump, i) ELSE bump
              ELSE IF ~isPlaying /\ hasHls
                THEN IF atMax THEN recoverFromCheck(bump, i)
                     ELSE [bump EXCEPT !.paused[i] = FALSE]
              ELSE IF hasProgressed THEN [s1 EXCEPT !.stallCount[i] = 0]
              ELSE s1
    IN [s2 EXCEPT !.lastPlaybackTime[i] = IF o.cur = "zero" THEN 0 ELSE 1]

\* The body of the forEach of checkAllCameraHealth for one session.
\* lastPlaybackTime is 0 or 1 (any other position); lastCheckTime is 0
\* (never set: the code then takes now, so that no time has passed) or 1.
checkCamera(s, i, o) ==
  IF ~Evaluated(s, i) THEN s
  ELSE
    LET hasProgressed == \/ o.cur = "moved"
                         \/ o.cur = "zero" /\ s.lastPlaybackTime[i] # 0
        longEnough == s.lastCheckTime[i] # 0 /\ o.since
        isPlaying == ~s.paused[i] /\ ~o.ended
        hasEnoughData == o.enough
        hasHls == s.hls[i] # "null"
        s1 == [s EXCEPT !.lastCheckTime[i] = 1]
        bump == [s1 EXCEPT !.stallCount[i] = @ + 1]
        atMax == bump.stallCount[i] >= MAX_STALL_COUNT
        s2 == IF ~hasHls /\ s.url[i] = "m3u8" THEN recoverFromCheck(s1, i)
              ELSE IF o.err THEN recoverFromCheck(s1, i)
              ELSE IF isPlaying /\ hasEnoughData /\ ~hasProgressed /\ longEnough
                THEN IF atMax THEN recoverFromCheck(bump, i) ELSE bump
              ELSE IF ~hasEnoughData /\ hasHls /\ longEnough
                THEN IF atMax THEN recoverFromCheck(bump, i) ELSE bump
              ELSE IF ~isPlaying /\ hasHls
                THEN IF atMax THEN recoverFromCheck(bump, i)
                     ELSE [bump EXCEPT !.paused[i] = FALSE]
              ELSE IF hasProgressed THEN [s1 EXCEPT !.stallCount[i] = 0]
              ELSE s1
    IN [s2 EXCEPT !.lastPlaybackTime[i] = IF o.cur = "zero" THEN 0 ELSE 1]

\* The readings one evaluation can make, among the readings O the
\* environment produces: a single one where the session is skipped, and
\* none that the state rules out.
ObsFor(s, i, O) ==
  IF ~Evaluated(s, i)
    THEN {[cur |-> "zero", enough |-> FALSE, err |-> FALSE, ended |-> FALSE,
           since |-> FALSE]}
    ELSE {o \in O : /\ o.since => s.lastCheckTime[i] # 0
                    /\ o.cur = "same" => s.lastPlaybackTime[i] # 0
                    /\ o.ended => ~s.paused[i]}

\* checkAllCameraHealth: the states the forEach can end in, from slot k on.
RECURSIVE checkFrom(_, _, _)
checkFrom(s, k, O) ==
  IF k >= NumSlots THEN {s}
  ELSE UNION {checkFrom(checkCamera(s, k, o), k + 1, O) : o \in ObsFor(s, k, O)}

checkAllCameraHealth(s, O) ==
  IF ~s.isPageVisible THEN {s} ELSE checkFrom(s, 0, O)

\* ------------------------------------------------- page visibility
\* pauseAllStreams releasing the engines (cleanupHls) where the code only
\* stops their loading.
RECURSIVE pauseEachReleasing(_, _)
pauseEachReleasing(s, q) ==
  IF q = << >> THEN s
  ELSE LET i == Head(q)
           s3 == [cleanupHls(clearRetry(s, i), i) EXCEPT !.paused[i] = TRUE]
       IN pauseEachReleasing(IF s.isDestroyed[i] THEN s ELSE s3, Tail(q))

RECURSIVE pauseEach(_, _)
pauseEach(s, q) ==
  IF q = << >> THEN s
  ELSE LET i == Head(q)
           s1 == clearRetry(s, i)
           s2 == IF s1.hls[i] = "null" THEN s1
                 ELSE IF s1.cleanupThrows = "stopLoad"
                   THEN [s1 EXCEPT !.cleanupThrows = "none"]
                 ELSE [s1 EXCEPT !.hlsLoading[i] = FALSE]
           s3 == IF s2.paused[i] THEN s2
                 ELSE IF s2.cleanupThrows = "pause"
                   THEN [s2 EXCEPT !.cleanupThrows = "none"]
                 ELSE [s2 EXCEPT !.paused[i] = TRUE]
       IN pauseEach(IF s.isDestroyed[i] THEN s ELSE s3, Tail(q))

pauseAllStreams(s) == pauseEach(stopHealthMonitor(s), InOrder(s.cameras))

\* The sessions resumeAllStreams resets and restarts.
ToResume(s) == {i \in s.cameras : ~s.isDestroyed[i] /\ s.url[i] # "none"}

RECURSIVE resetEach(_, _)
resetEach(s, q) ==
  IF q = << >> THEN s
  ELSE LET i == Head(q)
           s1 == [s EXCEPT !.stallCount[i] = 0, !.lastPlaybackTime[i] = 0,
                           !.lastCheckTime[i] = 0, !.retryCount[i] = 0]
           s2 == cleanupHls(s1, i)
       IN resetEach(resetElement(s2, i), Tail(q))

\* resumeAllStreams without its test of isHDMode: every session is started
\* at once, whatever the policy.
resumeAllStreamsAllAtOnce(s, ex) ==
  LET camerasToResume == InOrder(ToResume(s))
      s1 == resetEach(s, camerasToResume)
  IN [initAll(s1, camerasToResume, ex) EXCEPT !.hdStartTimers = @ + 1]

resumeAllStreams(s, ex) ==
  LET camerasToResume == InOrder(ToResume(s))
      s1 == resetEach(s, camerasToResume)
  IN IF s1.isHDMode
       THEN [initAll(s1, camerasToResume, ex) EXCEPT !.hdStartTimers = @ + 1]
       ELSE sequentialInit(s1, camerasToResume, ex)

\* The visibilitychange handler, by the new value of document.hidden.
onHidden(s) ==
  stopHealthMonitor(pauseAllStreams([s EXCEPT !.isPageVisible = FALSE]))

onVisible(s, ex) ==
  startHealthMonitor(resumeAllStreams([s EXCEPT !.isPageVisible = TRUE], ex))

\* ---------------------------------------------------------- settings
applySettings(s, i, ex) ==
  LET s1 == destroyCamera(s, i)
  IN IF i \in s1.cameras /\ i \in s1.grid
       THEN LET s2 == [s1 EXCEPT !.isDestroyed[i] = FALSE, !.retryCount[i] = 0]
            IN IF s2.url[i] # "none" THEN initializeStream(s2, i, ex) ELSE s2
       ELSE setupGrid(s1, ex)

\* ------------------------------------------------------ engine errors
ErrorTypes == {"network", "media", "other"}

\* A fatal error of the engine of slot i; recoverThrows: recoverMediaError
\* throws.
\* handleHlsError without the in-place branch of NETWORK_ERROR: every fatal
\* error releases the engine and schedules a retry.
handleHlsErrorAlwaysReleases(s, i, type, recoverThrows) ==
  IF ~Live(s, i) THEN s
  ELSE IF type = "media" /\ ~(s.hls[i] # "null" /\ recoverThrows) THEN s
  ELSE scheduleRetry(setPlaceholder(cleanupHls(s, i), i, "Stream error"), i)

\* handleHlsError whose media branch releases the engine without trying
\* recoverMediaError().
handleHlsErrorMediaReleases(s, i, type, recoverThrows) ==
  IF ~Live(s, i) THEN s
  ELSE IF type = "network"
    THEN IF s.hls[i] # "null" /\ s.retryCount[i] < InPlaceRetries
           THEN [s EXCEPT !.hlsLoading[i] = TRUE, !.retryCount[i] = @ + 1]
           ELSE scheduleRetry(
                  setPlaceholder(cleanupHls(s, i), i, "Network error"), i)
  ELSE IF type = "media"
    THEN IF s.hls[i] # "null"
           THEN scheduleRetry(
                  setPlaceholder(cleanupHls(s, i), i, "Media error"), i)
           ELSE s
  ELSE scheduleRetry(setPlaceholder(cleanupHls(s, i), i, "Stream error"), i)

handleHlsError(s, i, type, recoverThrows) ==
  IF ~Live(s, i) THEN s
  ELSE IF type = "network"
    THEN IF s.hls[i] # "null" /\ s.retryCount[i] < InPlaceRetries
           THEN [s EXCEPT !.hlsLoading[i] = TRUE, !.retryCount[i] = @ + 1]
           ELSE scheduleRetry(
                  setPlaceholder(cleanupHls(s, i), i, "Network error"), i)
  ELSE IF type = "media"
    THEN IF s.hls[i] # "null" /\ recoverThrows
           THEN scheduleRetry(
                  setPlaceholder(cleanupHls(s, i), i, "Media error"), i)
           ELSE s
  ELSE scheduleRetry(setPlaceholder(cleanupHls(s, i), i, "Stream error"), i)

\* ------------------------------------------------- callbacks, listeners
\* The 'playing' event can be delivered: the element has media and is not
\* paused.
Playable(s, i) ==
  /\ i \in s.grid
  /\ ~s.paused[i]
  /\ s.src[i] \/ s.hls[i] = "attached"

\* createCameraElement: the element's own listeners.
videoOnPlaying(s, i, cur) ==
  IF s.isDestroyed[i] THEN s
  ELSE [s EXCEPT !.stallCount[i] = 0,
                 !.lastPlaybackTime[i] = IF cur = "zero" THEN 0 ELSE 1,
                 !.lastCheckTime[i] = 1]

onStalled(s, i) ==
  IF s.isDestroyed[i] THEN s ELSE [s EXCEPT !.stallCount[i] = @ + 1]

videoOnError(s, i) ==
  IF s.isDestroyed[i] THEN s
  ELSE IF s.url[i] # "none" THEN scheduleRetry(s, i) ELSE s

\* onPlaying without its 500 ms timer: initNextCamera is called at once.
seqOnPlayingAtOnce(s, i) ==
  LET onSlot(e) == e.slot = i
      n == Len(SelectSeq(s.seqTimers, onSlot)) + s.seqDeaf[i]
      s1 == [s EXCEPT !.seqTimers = SelectSeq(@, LAMBDA e : ~onSlot(e)),
                      !.seqDeaf[i] = 0]
  IN IF n > 0 THEN initNextCamera(s1, {}) ELSE s1

\* initNextCamera: onPlaying of every unresolved closure listening on the
\* element of slot i.  Each clears its own timer and schedules one
\* stabilization timer.
seqOnPlaying(s, i) ==
  LET onSlot(e) == e.slot = i
      n == Len(SelectSeq(s.seqTimers, onSlot)) + s.seqDeaf[i]
  IN [s EXCEPT !.seqTimers = SelectSeq(@, LAMBDA e : ~onSlot(e)),
               !.seqDeaf[i] = 0,
               !.stabTimers = @ \o [k \in 1 .. n |-> s.now + STABILIZE_MS]]

\* onTimeout without its call of initNextCamera: the sequencer gives the
\* slot up and does not go on.
seqOnTimeoutStuck(s, ex) == [s EXCEPT !.seqTimers = Tail(@)]

\* initNextCamera: onTimeout of the closure whose timer is due first.
seqOnTimeout(s, ex) == initNextCamera([s EXCEPT !.seqTimers = Tail(@)], ex)

\* initHlsStream: the engine's listeners.
onMediaAttached(s, i) ==
  IF s.isDestroyed[i] THEN s
  ELSE play([s EXCEPT !.hls[i] = "attached"], i, "hls")

onFragBuffered(s, i) ==
  IF ~s.isDestroyed[i] /\ s.retryCount[i] > 0
    THEN [s EXCEPT !.retryCount[i] = 0] ELSE s

hlsOnError(s, i, type, recoverThrows) ==
  IF s.isDestroyed[i] THEN s ELSE handleHlsError(s, i, type, recoverThrows)

\* The continuation of a play() promise of slot i: kind "hls" from
\* onMediaAttached, "src" from the native and direct paths of
\* initializeStream, "rtsp" from its rtsp path.
playSettled(s, i, kind, ok) ==
  LET s1 == [s EXCEPT !.playPromises[i] = @ \ {kind}]
  IN IF kind = "hls" /\ ok
       THEN setPlaceholder([s1 EXCEPT !.retryCount[i] = 0], i, "")
     ELSE IF kind = "src" /\ ~ok THEN scheduleRetry(s1, i)
     ELSE s1

\* scheduleRetry: the timer callbacks, of the backoff and of the cooldown
\* branch.
onRetryTimer(s, i, ex) ==
  LET s1 == [s EXCEPT !.retryTimers[i] = @ - 1, !.retryDelay[i] = 0,
                      !.retryTimeout[i] =
                         IF @ = "backoff" THEN "null" ELSE "stale"]
  IN IF ~s1.isDestroyed[i] /\ s1.url[i] # "none" /\ s1.isPageVisible
       THEN initializeStream(s1, i, ex) ELSE s1

\* The re-initialization timer with the 'Loading...' placeholder set
\* ahead of its guard.
onRecoverTimerPlaceholderFirst(s, i, byCheck, ex) ==
  LET s1 == [s EXCEPT !.recovTimers[i] = @ - 1,
                      !.recovOld[i] = IF @ > 0 THEN @ - 1 ELSE 0,
                      !.recovByCheck[i] = IF byCheck THEN @ - 1 ELSE @,
                      !.placeholder[i] = "Loading..."]
  IN IF ~s1.isDestroyed[i] /\ s1.isPageVisible
       THEN initializeStream(s1, i, ex) ELSE s1

\* recoverCamera: the 1 s timer callback.  The timers of a session have the
\* same delay, so those scheduled before destroyCamera was last called on it
\* (recovOld) fire first.
onRecoverTimer(s, i, byCheck, ex) ==
  LET s1 == [s EXCEPT !.recovTimers[i] = @ - 1,
                      !.recovOld[i] = IF @ > 0 THEN @ - 1 ELSE 0,
                      !.recovByCheck[i] = IF byCheck THEN @ - 1 ELSE @]
  IN IF ~s1.isDestroyed[i] /\ s1.isPageVisible
       THEN initializeStream(s1, i, ex) ELSE s1

\* resumeAllStreams: the 1 s timer callback of the HD branch.
onHdStartTimer(s) ==
  LET s1 == [s EXCEPT !.hdStartTimers = @ - 1]
  IN IF s1.isPageVisible /\ ~s1.healthCheckInterval
       THEN startHealthMonitor(s1) ELSE s1

\* ------------------------------------------------------------ actions
AttachThrows == SUBSET Slots

SetupGrid(ex) == LET r == setupGrid(St, ex) IN Within(r) /\ Apply(r)

Hide ==
  /\ visibilityHandler /\ isPageVisible
  /\ LET r == onHidden(St) IN Within(r) /\ Apply(r)

Show(ex) ==
  /\ visibilityHandler /\ ~isPageVisible
  /\ LET r == onVisible(St, ex) IN Within(r) /\ Apply(r)

\* ConfigManager: the change listener of a URL input writes the shared
\* configuration object in place.
EditUrl(i, u) ==
  /\ url[i] # u
  /\ Apply([St EXCEPT !.url[i] = u])

ApplySettings(i, ex) ==
  LET r == applySettings(St, i, ex) IN Within(r) /\ Apply(r)

ForceRecover(i) ==
  /\ Live(St, i)
  /\ LET r == forceRecover(St, i) IN Within(r) /\ Apply(r)

\* A tick of the 5 s interval, in an environment that produces the
\* readings O.
HealthTick(O) ==
  /\ healthCheckInterval
  /\ \A i \in Slots : recovByCheck[i] = 0
  /\ \E r \in checkAllCameraHealth(St, O) : Within(r) /\ Apply(r)

\* The first check, 2 s after startHealthMonitor.
FirstCheckFire(O) ==
  /\ firstCheckTimers > 0
  /\ \E r \in checkAllCameraHealth([St EXCEPT !.firstCheckTimers = @ - 1], O) :
       Within(r) /\ Apply(r)

HdStartFire ==
  /\ hdStartTimers > 0
  /\ LET r == onHdStartTimer(St) IN Within(r) /\ Apply(r)

RecovFire(i, byCheck, ex) ==
  /\ IF byCheck THEN recovByCheck[i] > 0
                ELSE recovTimers[i] > recovByCheck[i]
  /\ LET r == onRecoverTimer(St, i, byCheck, ex) IN Within(r) /\ Apply(r)

\* The recovery timer of a session object that has left the map: the object
\* is destroyed for good, the callback does nothing.
OrphanRecovFire ==
  /\ orphanRecov > 0
  /\ Apply([St EXCEPT !.orphanRecov = @ - 1])

RetryFire(i, ex) ==
  /\ retryTimers[i] > 0
  /\ LET r == onRetryTimer(St, i, ex) IN Within(r) /\ Apply(r)

SeqTimeoutFire(ex) ==
  /\ seqTimers # << >>
  /\ LET r == seqOnTimeout(St, ex) IN Within(r) /\ Apply(r)

\* The stabilization timer that is due first (all have the same delay).
StabFire(ex) ==
  /\ stabTimers # << >>
  /\ LET r == initNextCamera([St EXCEPT !.stabTimers = Tail(@)], ex)
     IN Within(r) /\ Apply(r)

Playing(i, cur) ==
  /\ Playable(St, i)
  /\ LET s1 == IF videoListeners[i] THEN videoOnPlaying(St, i, cur) ELSE St
         r == seqOnPlaying(s1, i)
     IN Within(r) /\ Apply(r)

MediaAttached(i) ==
  /\ hls[i] = "created"
  /\ Apply(onMediaAttached(St, i))

FatalError(i, type, recoverThrows) ==
  /\ hls[i] \in {"created", "attached"}
  /\ LET r == hlsOnError(St, i, type, recoverThrows) IN Within(r) /\ Apply(r)

FragBuffered(i) ==
  /\ hls[i] = "attached" /\ hlsLoading[i]
  /\ Apply(onFragBuffered(St, i))

VideoStalled(i) ==
  /\ i \in grid /\ videoListeners[i]
  /\ src[i] \/ hls[i] # "null"
  /\ LET r == onStalled(St, i) IN Within(r) /\ Apply(r)

VideoError(i) ==
  /\ i \in grid /\ videoListeners[i]
  /\ src[i] \/ hls[i] # "null"
  /\ LET r == videoOnError(St, i) IN Within(r) /\ Apply(r)

PlaySettle(i, kind, ok) ==
  /\ kind \in playPromises[i]
  /\ ok => Playable(St, i)
  /\ LET r == playSettled(St, i, kind, ok) IN Within(r) /\ Apply(r)

\* The play() promise of a session object that has left the map rejects;
\* its handler calls scheduleRetry(index, camera), which looks the index up
\* in the map again.
OrphanPromiseReject(i) ==
  /\ orphanPromise[i]
  /\ LET r == scheduleRetry([St EXCEPT !.orphanPromise[i] = FALSE], i)
     IN Within(r) /\ Apply(r)

\* -------------------------------------------------------------- states
\* The state after construction and ConfigManager.initializeServices'
\* setHDMode / updateConfig: hd, mode and urls are the device profile, the
\* browser's HLS support and the configured URLs.
\* The sensor widgets of the dashboard.
SensorIds == {"temp1", "temp2"}

\* CalendarService after its constructor.  checkInterval is TRUE while the
\* field holds a timer; todayEvent is whether events holds today's date;
\* wasChecking (history) is whether the interval ran when the page was
\* last hidden.
NewCalendarService ==
  [ isPaused |-> FALSE, isDestroyed |-> FALSE, checkInterval |-> FALSE,
    bannerElement |-> FALSE, isVisible |-> FALSE, todayEvent |-> FALSE,
    wasChecking |-> FALSE ]

\* SensorService after its constructor: an empty map.  For a sensor that is
\* in the map, live is a request in flight that nobody aborted and aborted
\* in the map, abortController is "null" or the state of the request the
\* controller in the field belongs to ("live", or "aborted" once its signal
\* has fired); orphans counts the requests in flight that no controller in
\* the field refers to and that nobody aborted, aborted the aborted ones
\* whose promise has not settled yet; wasPolling (history) is whether the
\* interval ran when the page was last hidden.
NoSensor ==
  [ known |-> FALSE, url |-> FALSE, interval |-> FALSE,
    abortController |-> "null", orphans |-> 0, aborted |-> 0,
    consecutiveErrors |-> 0, wasPolling |-> FALSE ]

NewSensorService ==
  [ isPaused |-> FALSE, isDestroyed |-> FALSE,
    sensors |-> [id \in SensorIds |-> NoSensor] ]

\* WeatherService after its constructor.  location is currentLat &&
\* currentLon; lastFetch is the age of lastFetchTime ("never" for 0);
\* request is the fetch in flight ("none", "live" or "aborted");
\* wasUpdating (history) is whether the interval ran when the page was last
\* hidden.
NewWeatherService ==
  [ isPaused |-> FALSE, isDestroyed |-> FALSE, updateInterval |-> FALSE,
    location |-> FALSE, weatherInfoElement |-> FALSE, isFetching |-> FALSE,
    weatherAbortController |-> FALSE, lastFetch |-> "never",
    request |-> "none", wasUpdating |-> FALSE ]

InitWith(hd, mode, urls) ==
  /\ now = 0
  /\ isPageVisible = TRUE
  /\ isHDMode = hd
  /\ hlsMode = mode
  /\ url = urls
  /\ healthCheckInterval = FALSE
  /\ firstCheckTimers = 0
  /\ hdStartTimers = 0
  /\ isInitializing = FALSE
  /\ initQueue = << >>
  /\ stabTimers = << >>
  /\ cameras = {}
  /\ grid = {}
  /\ isDestroyed = [i \in Slots |-> FALSE]
  /\ everDestroyed = [i \in Slots |-> FALSE]
  /\ hls = [i \in Slots |-> "null"]
  /\ hlsLoading = [i \in Slots |-> FALSE]
  /\ engines = [i \in Slots |-> 0]
  /\ retryTimeout = [i \in Slots |-> "null"]
  /\ retryTimers = [i \in Slots |-> 0]
  /\ retryCount = [i \in Slots |-> 0]
  /\ stallCount = [i \in Slots |-> 0]
  /\ lastPlaybackTime = [i \in Slots |-> 0]
  /\ lastCheckTime = [i \in Slots |-> 0]
  /\ recovTimers = [i \in Slots |-> 0]
  /\ recovByCheck = [i \in Slots |-> 0]
  /\ recovOld = [i \in Slots |-> 0]
  /\ paused = [i \in Slots |-> TRUE]
  /\ src = [i \in Slots |-> FALSE]
  /\ videoListeners = [i \in Slots |-> FALSE]
  /\ playPromises = [i \in Slots |-> {}]
  /\ seqTimers = << >>
  /\ seqDeaf = [i \in Slots |-> 0]
  /\ orphanRecov = 0
  /\ orphanPromise = [i \in Slots |-> FALSE]
  /\ jitter = 0
  /\ retryDelay = [i \in Slots |-> 0]
  /\ placeholder = [i \in Slots |-> ""]
  /\ calendarService = NewCalendarService
  /\ sensorService = NewSensorService
  /\ weatherService = NewWeatherService
  /\ cleanupThrows = "none"
  /\ currentTime = [i \in Slots |-> 0]
  /\ visibilityHandler = TRUE

AllHls == [i \in Slots |-> "m3u8"]
OneHls == [i \in Slots |-> IF i = 0 THEN "m3u8" ELSE "none"]

\* The readings of an element that plays: the position has moved, data is
\* buffered, no error.
Healthy ==
  {o \in Obs : o.cur = "moved" /\ o.enough /\ ~o.err /\ ~o.ended /\ o.since}

\* The readings of an element that plays or has frozen on a frame.
Freezing ==
  {o \in Obs : o.cur # "zero" /\ o.enough /\ ~o.err /\ ~o.ended /\ o.since}

\* The fields of the session object of slot i (cameraData) and of its
\* element.
Session(s, i) ==
  << s.isDestroyed[i], s.hls[i], s.hlsLoading[i], s.engines[i],
     s.retryTimeout[i], s.retryCount[i], s.stallCount[i],
     s.lastPlaybackTime[i], s.lastCheckTime[i], s.paused[i], s.src[i] >>

\* A fatal error of the engine of slot i, in the specifications that stop
\* short of the cooldown branch of scheduleRetry.
EarlyFatalError(i, type) ==
  /\ retryCount[i] < MaxRetrySeen
  /\ FatalError(i, type, FALSE)

\* A slot is in flight: a closure of initNextCamera for its session is
\* unresolved and its 15 s timer is pending.
InFlight(i) == \E k \in 1 .. Len(seqTimers) : seqTimers[k].slot = i

\* --------------------------------------------------------------------
\* Spec: the life of one session.  A kiosk device (staggered policy) with
\* hls.js, slot 0 an HLS camera and slot 1 without a URL.  The grid is set
\* up and rebuilt, the page is hidden and shown, the settings of the camera
\* are applied again, recovery is forced, the engine reports fatal errors,
\* and every timer the manager schedules fires at any later time.
\* --------------------------------------------------------------------
Init == InitWith(FALSE, "hlsjs", OneHls)

Next ==
  \/ SetupGrid({})
  \/ Hide
  \/ Show({})
  \/ ApplySettings(0, {})
  \/ ForceRecover(0)
  \/ SeqTimeoutFire({})
  \/ StabFire({})
  \/ \E i \in Slots : Playing(i, "moved")
  \/ \E i \in Slots : MediaAttached(i)
  \/ \E i \in Slots, type \in {"network", "other"} : EarlyFatalError(i, type)
  \/ \E i \in Slots : RetryFire(i, {})
  \/ HealthTick(Healthy)
  \/ FirstCheckFire(Healthy)
  \/ \E i \in Slots, b \in BOOLEAN : RecovFire(i, b, {})
  \/ OrphanRecovFire

Spec == Init /\ [][Next]_vars

\* --------------------------------------------------------------------
\* SpecSeq: the sequencer.  A kiosk device with hls.js, every slot an HLS
\* camera whose element, once it plays, keeps playing; the grid is set up
\* and rebuilt, the page is hidden and shown, and every timer the manager
\* schedules fires at any later time.
\* --------------------------------------------------------------------
InitSeq == InitWith(FALSE, "hlsjs", AllHls)

NextSeq ==
  \/ SetupGrid({})
  \/ Hide
  \/ Show({})
  \/ SeqTimeoutFire({})
  \/ StabFire({})
  \/ \E i \in Slots : Playing(i, "moved")
  \/ \E i \in Slots : MediaAttached(i)
  \/ HealthTick(Healthy)
  \/ FirstCheckFire(Healthy)

SpecSeq == InitSeq /\ [][NextSeq]_vars

\* --------------------------------------------------------------------
\* SpecHealth: the health monitor.  An HD device with hls.js, every slot an
\* HLS camera; the element plays, freezes, reports 'stalled', and the
\* monitor checks it.
\* --------------------------------------------------------------------
InitHealth == InitWith(TRUE, "hlsjs", AllHls)

NextHealth ==
  \/ SetupGrid({})
  \/ \E i \in Slots : MediaAttached(i)
  \/ \E i \in Slots : Playing(i, "moved")
  \/ \E i \in Slots : VideoStalled(i)
  \/ HealthTick(Freezing)
  \/ FirstCheckFire(Freezing)
  \/ \E i \in Slots, b \in BOOLEAN : RecovFire(i, b, {})
  \/ OrphanRecovFire

SpecHealth == InitHealth /\ [][NextHealth]_vars

\* --------------------------------------------------------------------
\* SpecRecover: recovery.  An HD device with hls.js, slot 0 an HLS camera
\* and slot 1 without a URL; the element plays, freezes and reports
\* 'stalled', the engine reports fatal errors and is retried, the monitor
\* checks the session, recovery is forced, the page is hidden and shown.
\* --------------------------------------------------------------------
InitRecover == InitWith(TRUE, "hlsjs", OneHls)

NextRecover ==
  \/ SetupGrid({})
  \/ Hide
  \/ Show({})
  \/ ForceRecover(0)
  \/ \E i \in Slots : MediaAttached(i)
  \/ \E i \in Slots : Playing(i, "moved")
  \/ \E i \in Slots : VideoStalled(i)
  \/ \E i \in Slots, type \in {"network", "other"} : EarlyFatalError(i, type)
  \/ \E i \in Slots : RetryFire(i, {})
  \/ HealthTick(Freezing)
  \/ FirstCheckFire(Freezing)
  \/ HdStartFire
  \/ \E i \in Slots, b \in BOOLEAN : RecovFire(i, b, {})
  \/ OrphanRecovFire

SpecRecover == InitRecover /\ [][NextRecover]_vars

\* --------------------------------------------------------------------
\* SpecVis: page visibility.  An HD device with hls.js, every slot an HLS
\* camera; engines fail and are retried, the monitor runs, and the page is
\* hidden and shown at any time.
\* --------------------------------------------------------------------
InitVis == InitWith(TRUE, "hlsjs", AllHls)

NextVis ==
  \/ SetupGrid({})
  \/ Hide
  \/ Show({})
  \/ \E i \in Slots : MediaAttached(i)
  \/ \E i \in Slots : Playing(i, "moved")
  \/ \E i \in Slots : EarlyFatalError(i, "other")
  \/ \E i \in Slots : RetryFire(i, {})
  \/ HealthTick(Healthy)
  \/ FirstCheckFire(Healthy)
  \/ HdStartFire

SpecVis == InitVis /\ [][NextVis]_vars

\* --------------------------------------------------------------------
\* SpecTimed: one sequencing run against the clock.  A kiosk device with
\* hls.js; the grid is set up once at time 0 and nothing interferes; every
\* timer of the sequencer fires when it is due.
\* --------------------------------------------------------------------
\* The slots with a URL: the queue of the sequencing run.
Queued == {i \in Slots : url[i] # "none"}

\* The horizon of the clock.
Horizon == (NumSlots + 1) * (SEQUENTIAL_TIMEOUT_MS + STABILIZE_MS)

\* The grain of the clock: every delay of the sequencer is a multiple.
Step == STABILIZE_MS \div 2

\* The clock advances by one Step, never past a timer that is due.
Tick ==
  /\ now + Step <= Horizon
  /\ \A k \in 1 .. Len(seqTimers) : seqTimers[k].due > now
  /\ \A k \in 1 .. Len(stabTimers) : stabTimers[k] > now
  /\ Apply([St EXCEPT !.now = @ + Step])

SeqTimeoutDue(ex) ==
  /\ seqTimers # << >>
  /\ Head(seqTimers).due <= now
  /\ SeqTimeoutFire(ex)

StabDue(ex) ==
  /\ stabTimers # << >>
  /\ Head(stabTimers) <= now
  /\ StabFire(ex)

InitTimed ==
  \E urls \in [Slots -> {"m3u8", "none"}] : InitWith(FALSE, "hlsjs", urls)

NextTimed ==
  \/ cameras = {} /\ SetupGrid({})
  \/ isInitializing /\ Tick
  \/ SeqTimeoutDue({})
  \/ StabDue({})
  \/ \E i \in Slots : MediaAttached(i)
  \/ \E i \in Slots : Playing(i, "moved")

SpecTimed == InitTimed /\ [][NextTimed]_vars

\* ====================================================================
\* Properties
\* ====================================================================

\* C1: under the staggered policy (isHDMode = false) at most one slot is in
\* flight (started by initNextCamera and still awaiting its 'playing' event
\* or its 15 s timeout) in every reachable state.
C1_AtMostOneInFlight ==
  ~isHDMode => Cardinality({i \in Slots : InFlight(i)}) <= 1

\* A callback of a session on which destroyCamera has been called fires:
\* the 1 s timer of a recovery that was scheduled before the call, or the
\* 15 s timer of a closure whose session has left the map.
OldRecoveryFires(i) ==
  recovOld[i] > 0 /\ \E b \in BOOLEAN : RecovFire(i, b, {})

OldTimeoutFires ==
  /\ seqTimers # << >>
  /\ Head(seqTimers).slot = NoSlot
  /\ SeqTimeoutFire({})

\* C2: once destroyCamera has been called on a session, no callback of that
\* session that fires afterwards changes a session field or starts a
\* stream.
C2_NoEffectAfterDestroy ==
  [][ /\ \A i \in Slots :
           OldRecoveryFires(i) => Session(St, i)' = Session(St, i)
      /\ OldTimeoutFires =>
           \A i \in Slots : Session(St, i)' = Session(St, i) ]_vars

C4_DestroyedForGood ==
  \A i \in cameras : everDestroyed[i] => isDestroyed[i]

\* C5: the stallCount of every session stays within 0 .. MAX_STALL_COUNT.
C5_StallCountBounded ==
  \A i \in Slots : stallCount[i] \in 0 .. MAX_STALL_COUNT

\* C6: no recovery of a slot is started while the re-initialization timer
\* of an earlier recovery of that slot is pending: at most one such timer
\* is pending per slot.
C6_OneRecoveryAtATime ==
  \A i \in Slots : recovTimers[i] <= 1

\* C7: a step in which recoverCamera schedules the re-initialization of a
\* session ends with stallCount = 0, retryCount = 0 and no engine held.
C7_RecoveryResets ==
  [][ \A i \in Slots :
        recovTimers'[i] > recovTimers[i] =>
          /\ stallCount'[i] = 0
          /\ retryCount'[i] = 0
          /\ hls'[i] = "null" /\ engines'[i] = 0 ]_vars

\* C7 is reached where recoverCamera has run on a live session.
C7_RecoveryScheduled ==
  \E i \in cameras :
    /\ ~isDestroyed[i] /\ recovTimers[i] > 0
    /\ stallCount[i] = 0 /\ retryCount[i] = 0 /\ hls[i] = "null"

\* What is outstanding for slot i: a pending retry timer, a pending
\* sequencer timeout, a recovery in progress.
Outstanding(i) ==
  {k \in {"retry", "init", "recovery"} :
     \/ k = "retry" /\ retryTimers[i] > 0
     \/ k = "init" /\ InFlight(i)
     \/ k = "recovery" /\ recovTimers[i] > 0}

\* C8: for every slot at most one of a pending retry timer, a pending
\* sequencer init timeout and a recovery in progress is outstanding.
C8_OneOutstanding ==
  \A i \in Slots : Cardinality(Outstanding(i)) <= 1

HealthCheck == HealthTick(Healthy) \/ FirstCheckFire(Healthy)

\* C10: the step that hides the page stops the loading of every live
\* session's engine and pauses its sink, keeps every engine, and leaves no
\* retry timer pending; while the page is hidden the interval of the
\* monitor is stopped and a check evaluates no session.
C10_HiddenPagePausesAll ==
  /\ [](~isPageVisible => ~healthCheckInterval)
  /\ [][ /\ isPageVisible /\ ~isPageVisible' =>
              \A i \in cameras :
                ~isDestroyed[i] =>
                  /\ hls'[i] = hls[i] /\ engines'[i] = engines[i]
                  /\ hls[i] # "null" => ~hlsLoading'[i]
                  /\ paused'[i]
                  /\ retryTimers'[i] = 0 /\ retryTimeout'[i] = "null"
         /\ ~isPageVisible /\ HealthCheck =>
              \A i \in Slots : Session(St, i)' = Session(St, i) ]_vars

\* C10 is reached where the page is hidden over an engine that was loading
\* and a first check of the monitor is still to fire.
C10_HiddenWithEngine ==
  /\ ~isPageVisible /\ firstCheckTimers > 0
  /\ \E i \in cameras :
       ~isDestroyed[i] /\ hls[i] = "attached" /\ ~hlsLoading[i] /\ paused[i]

\* --------------------------------------------------------------------
\* SpecResume: the page comes back.  A device of either policy with hls.js,
\* every slot an HLS camera; elements play and report
\* 'stalled', engines report fatal network errors, the page is hidden and
\* shown at any time, and every timer fires at any later time.
\* --------------------------------------------------------------------
InitResume ==
  \E hd \in BOOLEAN : InitWith(hd, "hlsjs", AllHls)

\* The first 'stalled' event and the first fatal network error of a
\* session since its counters were last zero.
FirstStall(i) == stallCount[i] = 0 /\ VideoStalled(i)

FirstNetworkError(i) == retryCount[i] = 0 /\ FatalError(i, "network", FALSE)

NextResume ==
  \/ cameras = {} /\ SetupGrid({})
  \/ Hide
  \/ Show({})
  \/ \E i \in Slots : MediaAttached(i)
  \/ \E i \in Slots : Playing(i, "moved")
  \/ \E i \in Slots : FirstStall(i)
  \/ \E i \in Slots : FirstNetworkError(i)
  \/ SeqTimeoutFire({})
  \/ StabFire({})
  \/ HdStartFire
  \/ HealthTick(Healthy)
  \/ FirstCheckFire(Healthy)

SpecResume == InitResume /\ [][NextResume]_vars

\* The session of slot i has been reset and not started again.
ResetOnly(s, i) ==
  /\ s.stallCount[i] = 0 /\ s.retryCount[i] = 0
  /\ s.hls[i] = "null" /\ s.engines[i] = 0
  /\ ~s.src[i] /\ s.paused[i]

\* The session of slot i has been reset and started again through hls.js.
Restarted(s, i) ==
  /\ s.stallCount[i] = 0 /\ s.retryCount[i] = 0
  /\ s.hls[i] = "created" /\ s.engines[i] = 1 /\ s.hlsLoading[i]
  /\ ~s.src[i]

\* C11: the step that shows the page again resets every live session with
\* a URL and restarts them by the policy: all of them at once on an HD
\* device, the first of them otherwise with the others reset and queued
\* behind it; the interval of the health monitor is running afterwards.
C11_ShowResetsAndRestarts ==
  [][ ~isPageVisible /\ isPageVisible' =>
        LET q == InOrder(ToResume(St))
        IN /\ healthCheckInterval'
           /\ isHDMode =>
                \A k \in 1 .. Len(q) : Restarted(St, q[k])'
           /\ ~isHDMode /\ q # << >> =>
                /\ Restarted(St, q[1])'
                /\ isInitializing' /\ initQueue' = Tail(q)
                /\ \A k \in 2 .. Len(q) : ResetOnly(St, q[k])'
           /\ \A i \in cameras \ ToResume(St) : hls'[i] = "null" ]_vars

\* C11 is reached under the staggered policy: the page is visible again,
\* the first session is starting and the others wait reset in the queue.
C11_ShownAgainStaggered ==
  /\ ~isHDMode /\ isPageVisible /\ isInitializing /\ healthCheckInterval
  /\ initQueue # << >> /\ \A k \in 1 .. Len(initQueue) : ResetOnly(St, initQueue[k])

\* --------------------------------------------------------------------
\* SpecCheck: the monitor during start-up.  A kiosk device with hls.js and
\* every slot an HLS camera, as SpecSeq, where a check reads an element
\* that plays or one that is still loading its first frame.
\* --------------------------------------------------------------------
\* The readings of an element that has not had a frame yet.
Loading ==
  {o \in Obs : o.cur = "zero" /\ ~o.enough /\ ~o.err /\ ~o.ended}

Starting == Healthy \cup Loading

InitCheck == InitWith(FALSE, "hlsjs", AllHls)

NextCheck ==
  \/ cameras = {} /\ SetupGrid({})
  \/ Hide
  \/ Show({})
  \/ SeqTimeoutFire({})
  \/ StabFire({})
  \/ \E i \in Slots : Playing(i, "moved")
  \/ \E i \in Slots : MediaAttached(i)
  \/ HealthTick(Starting)
  \/ FirstCheckFire(Starting)
  \/ \E i \in Slots, b \in BOOLEAN : RecovFire(i, b, {})

SpecCheck == InitCheck /\ [][NextCheck]_vars

\* A health check of SpecCheck.
StartupCheck == HealthTick(Starting) \/ FirstCheckFire(Starting)

\* The closure of the current sequencing run of slot i still awaits the
\* 'playing' event or its 15 s timeout.
AwaitingPlaying(i) ==
  \E k \in 1 .. Len(seqTimers) : seqTimers[k].slot = i /\ seqTimers[k].cur

\* C12: a health check changes the stallCount of no slot and schedules no
\* recovery for it while the page is hidden or while the sequencing of
\* that slot is in flight, and under the staggered policy it does neither
\* for any slot before the queue is empty and every started slot has
\* resolved by playing or by timeout.
C12_NoCheckDuringSequencing ==
  [][ StartupCheck =>
        \A i \in Slots :
          (stallCount'[i] # stallCount[i] \/ recovTimers'[i] # recovTimers[i]) =>
            /\ isPageVisible
            /\ ~AwaitingPlaying(i)
            /\ ~isHDMode =>
                 initQueue = << >> /\ \A j \in Slots : ~AwaitingPlaying(j) ]_vars

\* --------------------------------------------------------------------
\* SpecRetry: a camera that keeps failing.  An HD device with hls.js, slot
\* 0 an HLS camera and slot 1 without a URL; the engine attaches, buffers
\* fragments and reports fatal errors any number of times, so that
\* retryCount runs up to maxRetryAttempts; the page is hidden and shown;
\* the retry timers and the timers of the monitor fire at any later time.
\* --------------------------------------------------------------------
InitRetry == InitWith(TRUE, "hlsjs", OneHls)

\* Samples of Math.random() * 1000, in 1/Scale ms: the ends of [0, 1000),
\* their neighbours and the middle.
Jitters ==
  {0, 1, (JITTER_MS \div 2) * Scale, JITTER_MS * Scale - 1}

\* The random generator moves on.
MathRandom(j) == jitter # j /\ Apply([St EXCEPT !.jitter = j])

NextRetry ==
  \/ cameras = {} /\ SetupGrid({})
  \/ Hide
  \/ Show({})
  \/ HdStartFire
  \/ \E i \in Slots : MediaAttached(i)
  \/ \E i \in Slots : FragBuffered(i)
  \/ \E i \in Slots, type \in {"network", "other"} : FatalError(i, type, FALSE)
  \/ \E i \in Slots : RetryFire(i, {})
  \/ HealthTick(Healthy)
  \/ FirstCheckFire(Healthy)

SpecRetry == InitRetry /\ [][NextRetry]_vars

\* SpecDelay: SpecRetry where Math.random() gives any of the sampled
\* values.
NextDelay == NextRetry \/ \E j \in Jitters : MathRandom(j)

SpecDelay == InitRetry /\ [][NextDelay]_vars

\* The engine of slot i reports a fatal network error.
FatalNetworkError(i) == FatalError(i, "network", FALSE)

\* C13 as stated: on a fatal network error of a live session with an
\* engine, retryCount < 3 resumes loading in place, keeps the engine and
\* adds exactly 1 to retryCount; retryCount >= 3 releases the engine and
\* schedules a backoff retry.
C13_NetworkErrorPolicy ==
  [][ \A i \in Slots :
        FatalNetworkError(i) /\ ~isDestroyed[i] =>
          IF retryCount[i] < InPlaceRetries
            THEN /\ hlsLoading'[i]
                 /\ hls'[i] = hls[i] /\ engines'[i] = engines[i]
                 /\ retryCount'[i] = retryCount[i] + 1
                 /\ retryTimers'[i] = retryTimers[i]
            ELSE /\ hls'[i] = "null" /\ engines'[i] = 0
                 /\ retryTimeout'[i] = "backoff" /\ retryTimers'[i] = 1 ]_vars

\* C13 amended: as above, where at retryCount >= 3 the engine is released
\* and scheduleRetry is called: a backoff retry below maxRetryAttempts,
\* the 5-minute cooldown (with retryCount back to 0) at maxRetryAttempts.
C13_NetworkErrorPolicyToCooldown ==
  [][ \A i \in Slots :
        FatalNetworkError(i) /\ ~isDestroyed[i] =>
          IF retryCount[i] < InPlaceRetries
            THEN /\ hlsLoading'[i]
                 /\ hls'[i] = hls[i] /\ engines'[i] = engines[i]
                 /\ retryCount'[i] = retryCount[i] + 1
                 /\ retryTimers'[i] = retryTimers[i]
            ELSE /\ hls'[i] = "null" /\ engines'[i] = 0
                 /\ retryTimers'[i] = 1
                 /\ IF retryCount[i] < maxRetryAttempts
                      THEN /\ retryTimeout'[i] = "backoff"
                           /\ retryCount'[i] = retryCount[i] + 1
                      ELSE /\ retryTimeout'[i] = "cooldown"
                           /\ retryCount'[i] = 0 ]_vars

\* C13 is reached where the fourth network error in a row has released the
\* engine and scheduled the backoff retry.
C13_BackoffAfterInPlace ==
  \E i \in Slots :
    /\ ~isDestroyed[i] /\ retryCount[i] = InPlaceRetries + 1
    /\ hls[i] = "null" /\ retryTimeout[i] = "backoff"

\* A fatal engine error of slot i calls scheduleRetry, which takes its
\* backoff branch.
BackoffScheduled(i) ==
  /\ \/ FatalError(i, "other", FALSE)
     \/ retryCount[i] >= InPlaceRetries /\ FatalNetworkError(i)
  /\ ~isDestroyed[i]
  /\ retryTimeout'[i] = "backoff"

\* C14: the delay of a backoff retry scheduled at retryCount n (the count
\* after the call is n + 1) is min(3000 * 1.5^n + jitter, 120000) ms with
\* jitter in [0, 1000): it is at most 120000 ms; it is 120000 ms or lies
\* in [3000 * 1.5^n, 3000 * 1.5^n + 1000); for n = 0, 1, 2, 3 it lies in
\* [3000, 4000), [4500, 5500), [6750, 7750), [10125, 11125).
C14_BackoffDelay ==
  [][ \A i \in Slots :
        BackoffScheduled(i) =>
          LET n == retryCount'[i] - 1
              d == retryDelay'[i]
          IN /\ d <= 120000 * Scale
             /\ \/ d = 120000 * Scale
                \/ baseDelay(n) <= d /\ d < baseDelay(n) + 1000 * Scale
             /\ n = 0 => 3000 * Scale <= d /\ d < 4000 * Scale
             /\ n = 1 => 4500 * Scale <= d /\ d < 5500 * Scale
             /\ n = 2 => 6750 * Scale <= d /\ d < 7750 * Scale
             /\ n = 3 => 10125 * Scale <= d /\ d < 11125 * Scale ]_vars

\* C14 is reached where a backoff retry scheduled at retryCount 3 with the
\* largest jitter is pending.
C14_BackoffPending ==
  \E i \in Slots :
    /\ retryTimeout[i] = "backoff" /\ retryCount[i] = 4
    /\ retryDelay[i] = 10125 * Scale + JITTER_MS * Scale - 1

\* SpecRetryLive: SpecRetry where a pending retry timer fires in the end
\* (the event loop runs a timer that stays due).
SpecRetryLive == SpecRetry /\ \A i \in Slots : WF_vars(RetryFire(i, {}))

\* A fatal engine error of slot i calls scheduleRetry at retryCount =
\* maxRetryAttempts.
RetriesExhausted(i) ==
  /\ FatalError(i, "other", FALSE) \/ FatalNetworkError(i)
  /\ ~isDestroyed[i]
  /\ retryCount[i] >= maxRetryAttempts

\* C15: the scheduleRetry after maxRetryAttempts failed retries sets
\* retryCount to 0 and schedules one timer of 300000 ms; that timer fires
\* in the end unless it is cancelled, and when it fires at a visible page
\* for a session that is not destroyed, initializeStream runs and the
\* session has a new engine.
C15_CooldownThenRetry ==
  /\ [][ \A i \in Slots :
           RetriesExhausted(i) =>
             /\ retryCount'[i] = 0 /\ retryTimeout'[i] = "cooldown"
             /\ retryTimers'[i] = 1
             /\ retryDelay'[i] = 300000 * Scale ]_vars
  /\ [][ \A i \in Slots :
           /\ retryTimeout[i] = "cooldown" /\ RetryFire(i, {})
           /\ isPageVisible /\ ~isDestroyed[i]
           => hls'[i] = "created" /\ engines'[i] = 1 /\ hlsLoading'[i] ]_vars
  /\ \A i \in Slots :
       (retryTimeout[i] = "cooldown") ~> (retryTimeout[i] # "cooldown")

\* C15 is reached where the cooldown has elapsed at a visible page and the
\* session, with retryCount 0, has its new engine.
C15_RetriedAfterCooldown ==
  \E i \in Slots :
    /\ retryTimeout[i] = "stale" /\ retryTimers[i] = 0 /\ retryCount[i] = 0
    /\ isPageVisible /\ ~isDestroyed[i] /\ hls[i] = "created"

\* C16: in every reachable state every session has at most one retry
\* timer pending, and a pending one is the timer cameraData.retryTimeout
\* names.
C16_OneRetryTimer ==
  \A i \in Slots :
    /\ retryTimers[i] <= 1
    /\ retryTimers[i] = 1 => retryTimeout[i] \in {"backoff", "cooldown"}

\* C16 is reached where a retry has been scheduled for a session a second
\* time and one timer is pending.
C16_RetryPendingAgain ==
  \E i \in Slots :
    retryTimers[i] = 1 /\ retryTimeout[i] = "backoff" /\ retryCount[i] >= 2

\* --------------------------------------------------------------------
\* SpecEmpty: a slot without a URL.  A kiosk device with hls.js, slot 0 an
\* HLS camera and slot 1 without a URL.  The grid is set up and rebuilt,
\* the page is hidden and shown, settings are applied and recovery is
\* forced for the slot without a URL, the play() promise of the direct
\* path rejects, and every timer fires at any later time.
\* --------------------------------------------------------------------
InitEmpty == InitWith(FALSE, "hlsjs", OneHls)

NextEmpty ==
  \/ SetupGrid({})
  \/ Hide
  \/ Show({})
  \/ \E i \in Slots : url[i] = "none" /\ ApplySettings(i, {})
  \/ \E i \in Slots : url[i] = "none" /\ ForceRecover(i)
  \/ SeqTimeoutFire({})
  \/ StabFire({})
  \/ \E i \in Slots : Playing(i, "moved")
  \/ \E i \in Slots : MediaAttached(i)
  \/ \E i \in Slots : PlaySettle(i, "src", FALSE)
  \/ \E i \in Slots : RetryFire(i, {})
  \/ HealthTick(Healthy)
  \/ FirstCheckFire(Healthy)
  \/ \E i \in Slots, b \in BOOLEAN : RecovFire(i, b, {})
  \/ OrphanRecovFire

SpecEmpty == InitEmpty /\ [][NextEmpty]_vars

InitNative ==
  \E kind \in {"m3u8", "other"} :
    InitWith(TRUE, "native", [i \in Slots |-> IF i = 0 THEN kind ELSE "none"])

NextNative ==
  \/ cameras = {} /\ SetupGrid({})
  \/ Hide
  \/ Show({})
  \/ HdStartFire
  \/ \E i \in Slots, ok \in BOOLEAN : PlaySettle(i, "src", ok)
  \/ \E i \in Slots : Playing(i, "moved")
  \/ \E i \in Slots : RetryFire(i, {})
  \/ HealthTick(Healthy)
  \/ FirstCheckFire(Healthy)
  \/ \E i \in Slots, b \in BOOLEAN : RecovFire(i, b, {})

SpecNative == InitNative /\ [][NextNative]_vars

\* C18: when playback of a live session with no retry pending is seen to
\* succeed (its play() promise resolves, or its element reports 'playing'
\* with the position moved), retryCount is 0 afterwards.
C18_ProgressResetsRetryCount ==
  [][ \A i \in Slots :
        /\ ~isDestroyed[i] /\ retryTimers[i] = 0
        /\ PlaySettle(i, "src", TRUE) \/ Playing(i, "moved")
        => retryCount'[i] = 0 ]_vars

DestroyCamera(i) == i \in cameras /\ Apply(destroyCamera(St, i))

InitDestroy == InitWith(TRUE, "hlsjs", OneHls)

NextDestroy ==
  \/ SetupGrid({})
  \/ Hide
  \/ Show({})
  \/ HdStartFire
  \/ ApplySettings(0, {})
  \/ ForceRecover(0)
  \/ \E i \in Slots : DestroyCamera(i)
  \/ \E i \in Slots : MediaAttached(i)
  \/ \E i \in Slots : Playing(i, "moved")
  \/ \E i \in Slots : EarlyFatalError(i, "other")
  \/ \E i \in Slots : RetryFire(i, {})
  \/ HealthTick(Healthy)
  \/ FirstCheckFire(Healthy)
  \/ \E i \in Slots, b \in BOOLEAN : RecovFire(i, b, {})
  \/ OrphanRecovFire

SpecDestroy == InitDestroy /\ [][NextDestroy]_vars

\* C20: in every reachable state a second destroyCamera(index) right after
\* the first changes nothing, and destroyCamera(index) called at any later
\* time on a session that is still destroyed leaves every variable of the
\* manager and of the session as it is.
C20_DestroyIdempotent ==
  /\ [](\A i \in Slots :
          destroyCamera(destroyCamera(St, i), i) = destroyCamera(St, i))
  /\ [][ \A i \in Slots :
           isDestroyed[i] /\ DestroyCamera(i) => UNCHANGED vars ]_vars

\* C20 is reached where a session with a recovery timer pending and an
\* engine released by destroyCamera sits destroyed in the map.
C20_DestroyedInMap ==
  \E i \in cameras :
    /\ isDestroyed[i] /\ url[i] # "none"
    /\ hls[i] = "null" /\ recovTimers[i] > 0

\* C21: a recovery timer that was scheduled before destroyCamera was last
\* called on its session starts no stream when it fires, also where
\* applySettings has put the slot to use again in between: the session
\* holds the engine it held before, and no new one.
C21_NoRestartByOldTimer ==
  [][ \A i \in Slots :
        OldRecoveryFires(i) =>
          /\ hls'[i] = hls[i] /\ engines'[i] = engines[i]
          /\ hlsLoading'[i] = hlsLoading[i]
          /\ playPromises'[i] = playPromises[i] ]_vars

\* --------------------------------------------------------------------
\* SpecStall: playback that stops without an error.  An HD device with
\* hls.js, slot 0 an HLS camera and slot 1 without a URL, the page visible
\* throughout.  The engine fails any number of times before its element
\* plays; the element reports 'playing' once after each start and then
\* shows the same frame for good; the monitor reads an element that is
\* loading or frozen.  The ticks of the monitor and the retry and recovery
\* timers fire in the end (the event loop runs a timer that is due).
\* --------------------------------------------------------------------
Frozen ==
  {o \in Obs : o.cur = "same" /\ o.enough /\ ~o.err /\ ~o.ended /\ o.since}

\* The first 'playing' event after a start, and a fatal error before it.
FirstPlaying(i) == lastCheckTime[i] = 0 /\ Playing(i, "moved")

ErrorBeforePlaying(i, type) ==
  lastCheckTime[i] = 0 /\ FatalError(i, type, FALSE)

InitStall == InitWith(TRUE, "hlsjs", OneHls)

NextStall ==
  \/ cameras = {} /\ SetupGrid({})
  \/ \E i \in Slots : MediaAttached(i)
  \/ \E i \in Slots : FirstPlaying(i)
  \/ \E i \in Slots, type \in {"network", "other"} : ErrorBeforePlaying(i, type)
  \/ \E i \in Slots : RetryFire(i, {})
  \/ HealthTick(Frozen \cup Loading)
  \/ FirstCheckFire(Frozen \cup Loading)
  \/ \E i \in Slots, b \in BOOLEAN : RecovFire(i, b, {})

SpecStall ==
  /\ InitStall /\ [][NextStall]_vars
  /\ WF_vars(HealthTick(Frozen \cup Loading))
  /\ \A i \in Slots : WF_vars(RetryFire(i, {}))

\* The element of slot i has played and shows the same frame since.
Stuck(i) ==
  /\ i \in cameras /\ ~isDestroyed[i] /\ url[i] # "none" /\ isPageVisible
  /\ hls[i] = "attached" /\ ~paused[i] /\ lastCheckTime[i] # 0

\* C22: a live session with a URL whose playback has stopped without an
\* error does not stay so for ever: the monitor schedules its recovery (or
\* a pending retry starts it again).
C22_StalledIsRecovered ==
  \A i \in Slots : Stuck(i) ~> (~Stuck(i) \/ recovTimers[i] > 0)

\* ====================================================================
\* The dashboard services: CalendarService, SensorService, WeatherService.
\* Each is a record; its methods are operators on that record.
\* ====================================================================
MaxPending == 1     \* requests of one sensor that outlive their controller
MaxErrors == 1      \* consecutiveErrors counted up to here

\* ---- CalendarService (c is the service) ----
stopChecking(c) == [c EXCEPT !.checkInterval = FALSE]

hideBanner(c) ==
  IF ~c.bannerElement THEN c ELSE [c EXCEPT !.isVisible = FALSE]

showBanner(c) ==
  IF ~c.bannerElement \/ c.isDestroyed THEN c
  ELSE [c EXCEPT !.isVisible = TRUE]

checkTodayEvent(c) ==
  IF ~c.bannerElement THEN c
  ELSE IF c.todayEvent THEN showBanner(c) ELSE hideBanner(c)

CalendarPause(c) == stopChecking([c EXCEPT !.isPaused = TRUE])

CalendarResume(c) ==
  IF c.isDestroyed THEN c
  ELSE checkTodayEvent([c EXCEPT !.isPaused = FALSE])

startChecking(c, dashboardMode) ==
  IF c.isDestroyed \/ c.isPaused THEN c
  ELSE LET c1 == stopChecking(c) IN
       IF ~dashboardMode THEN hideBanner(c1)
       ELSE [checkTodayEvent(c1) EXCEPT !.checkInterval = TRUE]

\* The callback of the 30 s interval.
onCheckInterval(c) == IF ~c.isPaused THEN checkTodayEvent(c) ELSE c

CalendarVisibilityChange(c, hidden) ==
  IF c.isDestroyed THEN c
  ELSE IF hidden THEN CalendarPause(c) ELSE CalendarResume(c)

\* ---- SensorService (v is the service, x one sensor of its map) ----
\* abortController.abort() followed by abortController = null: the request
\* of the controller, not yet settled, is no longer reachable from the field.
abortAndForget(x) ==
  IF x.abortController = "null" THEN x
  ELSE [x EXCEPT !.abortController = "null", !.aborted = @ + 1]

\* `finally { sensor.abortController = null }` run by a request other than
\* the one the field refers to: that one loses its controller.
forgetController(x) ==
  IF x.abortController = "null" THEN x
  ELSE IF x.abortController = "live"
       THEN [x EXCEPT !.abortController = "null", !.orphans = @ + 1]
       ELSE [x EXCEPT !.abortController = "null", !.aborted = @ + 1]

pollSensor(v, id) ==
  IF v.isDestroyed \/ v.isPaused \/ ~v.sensors[id].known THEN v
  ELSE [v EXCEPT !.sensors[id] =
          [abortAndForget(@) EXCEPT !.abortController = "live"]]

stopPolling(v, id) ==
  IF ~v.sensors[id].known THEN v
  ELSE [v EXCEPT !.sensors[id] = abortAndForget([@ EXCEPT !.interval = FALSE])]

\* Called once for each sensor when the application starts (the entry is
\* not in the map before).
initSensor(v, id, hasUrl) ==
  [stopPolling(v, id) EXCEPT
     !.sensors[id] = [NoSensor EXCEPT !.known = TRUE, !.url = hasUrl]]

updateConfig(v, id, hasUrl) ==
  IF v.sensors[id].known THEN [v EXCEPT !.sensors[id].url = hasUrl]
  ELSE initSensor(v, id, hasUrl)

startPolling(v, id) ==
  IF v.isDestroyed \/ ~v.sensors[id].known THEN v
  ELSE LET v1 == stopPolling(v, id) IN
       IF ~v1.sensors[id].url \/ v1.isPaused THEN v1
       ELSE [pollSensor(v1, id) EXCEPT !.sensors[id].interval = TRUE]

\* sensors.forEach of pauseAll and of resumeAll: the callback touches the
\* visited sensor only, so the visits are independent of each other.
pauseAll(v) ==
  [v EXCEPT !.isPaused = TRUE,
            !.sensors = [id \in SensorIds |->
               IF @[id].known
               THEN abortAndForget([@[id] EXCEPT !.interval = FALSE])
               ELSE @[id]]]

resumeAll(v) ==
  IF v.isDestroyed THEN v
  ELSE LET v1 == [v EXCEPT !.isPaused = FALSE] IN
       [v1 EXCEPT !.sensors = [id \in SensorIds |->
          IF @[id].known /\ @[id].url
          THEN [pollSensor(v1, id).sensors[id] EXCEPT !.interval = TRUE]
          ELSE @[id]]]

SensorVisibilityChange(v, hidden) ==
  IF v.isDestroyed THEN v
  ELSE IF hidden THEN pauseAll(v) ELSE resumeAll(v)

\* The promise of a poll settles; which is "field" for the request the
\* controller in the field belongs to, "orphan" for one that lost its
\* controller, "aborted" for an aborted one.  The finally block runs always.
pollSettled(v, id, which, ok) ==
  LET x == v.sensors[id]
      counted == IF which = "aborted" \/ (which = "field" /\ x.abortController = "aborted")
                   \/ v.isDestroyed
                 THEN x
                 ELSE [x EXCEPT !.consecutiveErrors = IF ok THEN 0 ELSE @ + 1]
      done == CASE which = "field" -> [counted EXCEPT !.abortController = "null"]
                [] which = "orphan" ->
                     [forgetController(counted) EXCEPT !.orphans = @ - 1]
                [] OTHER ->
                     [forgetController(counted) EXCEPT !.aborted = @ - 1]
  IN [v EXCEPT !.sensors[id] = done]

\* The 10 s timer of a request: sensor.abortController?.abort().
pollTimedOut(v, id) ==
  IF v.sensors[id].abortController = "live"
  THEN [v EXCEPT !.sensors[id].abortController = "aborted"]
  ELSE v

\* ---- WeatherService (w is the service) ----
stopAutoUpdate(w) == [w EXCEPT !.updateInterval = FALSE]

startAutoUpdate(w) ==
  LET w1 == stopAutoUpdate(w) IN
  IF w1.location THEN [w1 EXCEPT !.updateInterval = TRUE] ELSE w1

\* weatherAbortController.abort(): the request in flight is aborted.
abortWeather(w) ==
  IF w.weatherAbortController /\ w.request = "live"
  THEN [w EXCEPT !.request = "aborted"] ELSE w

abortRequests(w) ==
  IF w.weatherAbortController
  THEN [abortWeather(w) EXCEPT !.weatherAbortController = FALSE]
  ELSE w

updateWeather(w) ==
  IF w.isDestroyed \/ w.isPaused THEN w
  ELSE IF ~w.location \/ ~w.weatherInfoElement THEN w
  ELSE IF w.isFetching THEN w
  ELSE IF w.lastFetch = "fresh" THEN w
  ELSE [abortWeather(w) EXCEPT !.weatherAbortController = TRUE,
                               !.isFetching = TRUE, !.request = "live"]

WeatherPause(w) ==
  abortRequests(stopAutoUpdate([w EXCEPT !.isPaused = TRUE]))

WeatherResume(w) ==
  IF w.isDestroyed THEN w
  ELSE LET w1 == [w EXCEPT !.isPaused = FALSE]
           w2 == IF w1.location /\ w1.lastFetch \in {"never", "old"}
                 THEN updateWeather(w1) ELSE w1
       IN startAutoUpdate(w2)

WeatherVisibilityChange(w, hidden) ==
  IF w.isDestroyed THEN w
  ELSE IF hidden THEN WeatherPause(w) ELSE WeatherResume(w)

loadFromConfig(w, hasLocation) ==
  LET w1 == [w EXCEPT !.location = hasLocation] IN
  IF w1.location THEN updateWeather(w1) ELSE w1

\* The fetch of updateWeather settles: with a response (ok), with an error,
\* or, when it was aborted, with an AbortError.
weatherSettled(w, ok) ==
  LET body == IF w.request = "aborted" \/ ~ok \/ w.isDestroyed THEN w
              ELSE startAutoUpdate([w EXCEPT !.lastFetch = "fresh"])
  IN [body EXCEPT !.isFetching = FALSE, !.weatherAbortController = FALSE,
                  !.request = "none"]

\* ---- the services as parts of the page ----
CalendarInit ==
  /\ ~calendarService.bannerElement
  /\ Apply([St EXCEPT !.calendarService.bannerElement = TRUE])

LoadEvents(today) ==
  /\ ~calendarService.isDestroyed
  /\ Apply([St EXCEPT !.calendarService.todayEvent = today])

StartChecking(dashboardMode) ==
  Apply([St EXCEPT !.calendarService = startChecking(@, dashboardMode)])

CheckIntervalFire ==
  /\ calendarService.checkInterval
  /\ Apply([St EXCEPT !.calendarService = onCheckInterval(@)])

InitSensor(id, hasUrl) ==
  /\ ~sensorService.sensors[id].known
  /\ Apply([St EXCEPT !.sensorService = initSensor(@, id, hasUrl)])

StartPolling(id) ==
  LET r == [St EXCEPT !.sensorService = startPolling(@, id)] IN
  /\ r.sensorService.sensors[id].aborted + r.sensorService.sensors[id].orphans
       <= MaxPending
  /\ Apply(r)

StopPolling(id) ==
  LET r == [St EXCEPT !.sensorService = stopPolling(@, id)] IN
  /\ r.sensorService.sensors[id].aborted + r.sensorService.sensors[id].orphans
       <= MaxPending
  /\ Apply(r)

SensorIntervalFire(id) ==
  /\ sensorService.sensors[id].interval
  /\ LET r == [St EXCEPT !.sensorService = pollSensor(@, id)] IN
     /\ r.sensorService.sensors[id].aborted
          + r.sensorService.sensors[id].orphans <= MaxPending
     /\ Apply(r)

PollSettle(id, which, ok) ==
  LET x == sensorService.sensors[id] IN
  /\ CASE which = "field" -> x.abortController # "null"
       [] which = "orphan" -> x.orphans > 0
       [] OTHER -> x.aborted > 0
  /\ LET r == [St EXCEPT !.sensorService = pollSettled(@, id, which, ok)] IN
     /\ r.sensorService.sensors[id].consecutiveErrors <= MaxErrors
     /\ r.sensorService.sensors[id].aborted
          + r.sensorService.sensors[id].orphans <= MaxPending
     /\ Apply(r)

PollTimeout(id) ==
  /\ sensorService.sensors[id].abortController = "live"
  /\ Apply([St EXCEPT !.sensorService = pollTimedOut(@, id)])

WeatherInit ==
  /\ ~weatherService.weatherInfoElement
  /\ Apply([St EXCEPT !.weatherService.weatherInfoElement = TRUE])

LoadFromConfig(hasLocation) ==
  Apply([St EXCEPT !.weatherService = loadFromConfig(@, hasLocation)])

UpdateIntervalFire ==
  /\ weatherService.updateInterval
  /\ Apply([St EXCEPT !.weatherService = updateWeather(@)])

WeatherSettle(ok) ==
  /\ weatherService.request # "none"
  /\ Apply([St EXCEPT !.weatherService = weatherSettled(@, ok)])

\* The 15 s timer of updateWeather: weatherAbortController?.abort().
WeatherTimeout ==
  /\ weatherService.request = "live"
  /\ Apply([St EXCEPT !.weatherService = abortWeather(@)])

\* A minute, and then a quarter of an hour, pass since the last fetch.
WeatherAge ==
  /\ weatherService.lastFetch \in {"fresh", "aged"}
  /\ Apply([St EXCEPT !.weatherService.lastFetch =
              IF @ = "fresh" THEN "aged" ELSE "old"])

\* 'visibilitychange' with document.hidden: the listeners of the camera
\* manager and of the three services run.
PageHidden ==
  /\ isPageVisible
  /\ LET r == onHidden(St)
         noted == [r EXCEPT
           !.calendarService.wasChecking = calendarService.checkInterval,
           !.weatherService.wasUpdating = weatherService.updateInterval,
           !.sensorService.sensors =
              [id \in SensorIds |->
                 [@[id] EXCEPT !.wasPolling = sensorService.sensors[id].interval]]]
         q == [noted EXCEPT
           !.calendarService = CalendarVisibilityChange(@, TRUE),
           !.sensorService = SensorVisibilityChange(@, TRUE),
           !.weatherService = WeatherVisibilityChange(@, TRUE)]
     IN /\ Within(q)
        /\ \A id \in SensorIds :
             q.sensorService.sensors[id].aborted
               + q.sensorService.sensors[id].orphans <= MaxPending
        /\ Apply(q)

PageVisible ==
  /\ ~isPageVisible
  /\ LET r == onVisible(St, {})
         q == [r EXCEPT
           !.calendarService = CalendarVisibilityChange(@, FALSE),
           !.sensorService = SensorVisibilityChange(@, FALSE),
           !.weatherService = WeatherVisibilityChange(@, FALSE)]
     IN /\ Within(q)
        /\ \A id \in SensorIds :
             q.sensorService.sensors[id].aborted
               + q.sensorService.sensors[id].orphans <= MaxPending
        /\ Apply(q)

\* --------------------------------------------------------------------
\* SpecServices: the services of a page with one sensor URL, started as
\* ShadApp.init starts them, while the page is hidden and shown.  The
\* camera grid is not set up; the timers that the camera manager's own
\* visibility listener arms fire in between.
\* --------------------------------------------------------------------
InitServices == InitWith(TRUE, "hlsjs", OneHls)

NextServices ==
  \/ CalendarInit
  \/ \E today \in BOOLEAN : LoadEvents(today)
  \/ \E dashboardMode \in BOOLEAN : StartChecking(dashboardMode)
  \/ CheckIntervalFire
  \/ InitSensor("temp1", TRUE)
  \/ StartPolling("temp1")
  \/ SensorIntervalFire("temp1")
  \/ \E which \in {"field", "orphan", "aborted"}, ok \in BOOLEAN :
       PollSettle("temp1", which, ok)
  \/ PollTimeout("temp1")
  \/ WeatherInit
  \/ LoadFromConfig(TRUE)
  \/ UpdateIntervalFire
  \/ \E ok \in BOOLEAN : WeatherSettle(ok)
  \/ WeatherTimeout
  \/ WeatherAge
  \/ PageHidden
  \/ PageVisible
  \/ HdStartFire
  \/ FirstCheckFire(Healthy)

SpecServices == InitServices /\ [][NextServices]_vars

\* C23: when the page is shown again, the periodic work that ran when the
\* page was hidden runs again: the calendar's check interval, each
\* sensor's polling interval and the weather's update interval.
C23_ShowResumesPeriodicWork ==
  [][ PageVisible =>
        /\ calendarService.wasChecking => calendarService'.checkInterval
        /\ weatherService.wasUpdating => weatherService'.updateInterval
        /\ \A id \in SensorIds :
             sensorService.sensors[id].wasPolling
               => sensorService'.sensors[id].interval ]_vars


\* --------------------------------------------------------------------
\* SpecTick: the monitor with every reading of the element.  An HD device
\* with hls.js and one HLS camera; the engine attaches, the element plays,
\* the user forces a recovery, and each check reads any state of the
\* element (time, readyState, error, ended) that the session allows.
\* --------------------------------------------------------------------
InitTick == InitWith(TRUE, "hlsjs", OneHls)

NextTick ==
  \/ cameras = {} /\ SetupGrid({})
  \/ \E i \in Slots : MediaAttached(i)
  \/ \E i \in Slots : Playing(i, "moved")
  \/ \E i \in Slots : ForceRecover(i)
  \/ HealthTick(Obs)
  \/ FirstCheckFire(Obs)
  \/ \E i \in Slots, b \in BOOLEAN : RecovFire(i, b, {})

SpecTick == InitTick /\ [][NextTick]_vars

\* The failure class of reading o for session i, as the first match in the
\* order: engine missing, sink error, stalled, loading, paused, progress.
failureClass(s, i, o) ==
  LET hasProgressed == \/ o.cur = "moved"
                       \/ o.cur = "zero" /\ s.lastPlaybackTime[i] # 0
      longEnough == s.lastCheckTime[i] # 0 /\ o.since
      isPlaying == ~s.paused[i] /\ ~o.ended
      hasHls == s.hls[i] # "null"
  IN IF ~hasHls /\ s.url[i] = "m3u8" THEN "engine missing"
     ELSE IF o.err THEN "sink error"
     ELSE IF isPlaying /\ o.enough /\ ~hasProgressed /\ longEnough
       THEN "stalled"
     ELSE IF ~o.enough /\ hasHls /\ longEnough THEN "loading"
     ELSE IF ~isPlaying /\ hasHls THEN "paused"
     ELSE IF hasProgressed THEN "progress"
     ELSE "none"

\* C24: a check of one session acts on one failure class, the first that
\* matches in the order engine missing, sink error, stalled playback, stuck
\* loading, unexpected pause, progress.  The first two recover at once,
\* whatever stallCount is; the next three count one stall and recover only
\* at MAX_STALL_COUNT; progress alone sets stallCount to 0 without a
\* recovery; a reading of no class leaves stallCount as it is.
C24_OneClassPerTick ==
  \A i \in Slots : \A o \in ObsFor(St, i, Obs) :
    Evaluated(St, i) /\ isPageVisible =>
      LET r == checkCamera(St, i, o)
          k == failureClass(St, i, o)
          recovered == r.recovTimers[i] = recovTimers[i] + 1
          untouched == r.recovTimers[i] = recovTimers[i]
      IN CASE k \in {"engine missing", "sink error"} -> recovered
           [] k \in {"stalled", "loading", "paused"} ->
                IF stallCount[i] + 1 >= MAX_STALL_COUNT THEN recovered
                ELSE untouched /\ r.stallCount[i] = stallCount[i] + 1
           [] k = "progress" -> untouched /\ r.stallCount[i] = 0
           [] OTHER -> untouched /\ r.stallCount[i] = stallCount[i]

\* A check has counted a first stall for an engine that is attached, and
\* the next reading may show an error of the element.
C24_StallCounted ==
  \E i \in Slots :
    /\ Evaluated(St, i) /\ isPageVisible
    /\ hls[i] = "attached" /\ stallCount[i] = 1 /\ lastCheckTime[i] # 0
    /\ \E o \in ObsFor(St, i, Obs) : o.err /\ o.cur = "same" /\ o.enough


\* C25 as stated: a check that finds the element paused while the session
\* holds an engine adds 1 to stallCount; below MAX_STALL_COUNT it calls
\* play() and neither recovers nor releases the engine, at MAX_STALL_COUNT
\* it recovers and calls no play().
C25_PausedCounts ==
  \A i \in Slots : \A o \in ObsFor(St, i, Obs) :
    Evaluated(St, i) /\ isPageVisible /\ paused[i] /\ hls[i] # "null" =>
      LET r == checkCamera(St, i, o) IN
      IF stallCount[i] + 1 < MAX_STALL_COUNT
        THEN /\ r.stallCount[i] = stallCount[i] + 1
             /\ ~r.paused[i]
             /\ r.recovTimers[i] = recovTimers[i]
             /\ r.hls[i] = hls[i] /\ r.engines[i] = engines[i]
        ELSE /\ r.recovTimers[i] = recovTimers[i] + 1
             /\ r.hls[i] = "null" /\ r.paused[i]

\* C25, amended: the same where the check reaches the pause branch, that
\* is where the element has no error and is not stuck loading (readyState
\* below 2 a whole interval after the last check).
C25_PauseBranchCounts ==
  \A i \in Slots : \A o \in ObsFor(St, i, Obs) :
    /\ Evaluated(St, i) /\ isPageVisible /\ paused[i] /\ hls[i] # "null"
    /\ ~o.err
    /\ ~(~o.enough /\ lastCheckTime[i] # 0 /\ o.since)
    => LET r == checkCamera(St, i, o) IN
       IF stallCount[i] + 1 < MAX_STALL_COUNT
         THEN /\ r.stallCount[i] = stallCount[i] + 1
              /\ ~r.paused[i]
              /\ r.recovTimers[i] = recovTimers[i]
              /\ r.hls[i] = hls[i] /\ r.engines[i] = engines[i]
         ELSE /\ r.recovTimers[i] = recovTimers[i] + 1
              /\ r.hls[i] = "null" /\ r.paused[i]

\* A check has called play() on the paused element of an engine that has
\* not attached yet, and counted one stall.
C25_ResumedByCheck ==
  \E i \in Slots :
    hls[i] = "created" /\ ~paused[i] /\ stallCount[i] = 1


\* C26: a step that recovers a session (recoverCamera has armed its
\* re-initialization timer) ends with the session's lastPlaybackTime and
\* lastCheckTime at 0, whether the recovery came from forceRecover or from
\* a check of the monitor.
C26_RecoveryZeroesTracking ==
  [][ \A i \in Slots :
        recovTimers'[i] > recovTimers[i] =>
          lastPlaybackTime'[i] = 0 /\ lastCheckTime'[i] = 0 ]_vars


\* C27: when the re-initialization timer of recoverCamera fires for a
\* session that is destroyed, or while the page is hidden, no stream is
\* started and nothing of the session changes; when it fires for a live
\* session with a URL on a visible page, initializeStream gives the session
\* a new engine.
C27_RecoveryTimerGuard ==
  [][ \A i \in Slots :
        (\E b \in BOOLEAN : RecovFire(i, b, {})) =>
          IF ~isDestroyed[i] /\ isPageVisible
            THEN i \in cameras /\ url[i] = "m3u8" /\ hlsMode = "hlsjs"
                   => hls'[i] = "created" /\ engines'[i] >= 1
            ELSE UNCHANGED << hls, hlsLoading, engines, playPromises, src,
                              paused, retryTimeout, retryTimers, retryCount,
                              retryDelay, stallCount, lastPlaybackTime,
                              lastCheckTime, isDestroyed, placeholder,
                              videoListeners, isInitializing, initQueue,
                              healthCheckInterval >> ]_vars

\* The re-initialization timer of a session is pending while the session
\* is destroyed or the page is hidden.
C27_TimerPendingOffDuty ==
  \E i \in cameras :
    recovTimers[i] > 0 /\ (isDestroyed[i] \/ ~isPageVisible)


\* Slot i plays without an engine: the URL is attached to the element
\* directly (native HLS or a direct source), the element has reported
\* 'playing' and is not paused, and no retry is pending.
PlaysWithoutEngine(i) ==
  /\ Evaluated(St, i) /\ isPageVisible
  /\ hls[i] = "null" /\ src[i] /\ ~paused[i] /\ lastCheckTime[i] # 0

\* C28: a check of the monitor that reads progress leaves a slot that
\* plays without an engine as it is: no recovery is scheduled, and the
\* source stays attached and playing.
C28_EnginelessPlaybackLeftAlone ==
  [][ HealthTick(Healthy) \/ FirstCheckFire(Healthy) =>
        \A i \in Slots :
          PlaysWithoutEngine(i) =>
            /\ recovTimers'[i] = recovTimers[i]
            /\ src'[i] /\ ~paused'[i] ]_vars


\* --------------------------------------------------------------------
\* SpecRtsp: a camera with an rtsp:// URL on an HD device.  The play()
\* promise of its element settles either way, the element may report
\* 'playing' or 'error', the user forces recoveries, the page is hidden
\* and shown.
\* --------------------------------------------------------------------
InitRtsp ==
  InitWith(TRUE, "hlsjs", [i \in Slots |-> IF i = 0 THEN "rtsp" ELSE "none"])

NextRtsp ==
  \/ cameras = {} /\ SetupGrid({})
  \/ Hide
  \/ Show({})
  \/ HdStartFire
  \/ \E i \in Slots, ok \in BOOLEAN : PlaySettle(i, "rtsp", ok)
  \/ \E i \in Slots : Playing(i, "moved")
  \/ \E i \in Slots : ForceRecover(i)
  \/ \E i \in Slots : VideoError(i)
  \/ \E i \in Slots : RetryFire(i, {})
  \/ HealthTick(Healthy)
  \/ FirstCheckFire(Healthy)
  \/ \E i \in Slots, b \in BOOLEAN : RecovFire(i, b, {})

SpecRtsp == InitRtsp /\ [][NextRtsp]_vars

\* C29: when the play() promise of an rtsp:// slot rejects while the URL is
\* attached to the element of the live session, a retry is pending
\* afterwards.
C29_RtspFailureRetries ==
  [][ \A i \in Slots :
        /\ Live(St, i) /\ isPageVisible /\ url[i] = "rtsp" /\ src[i]
        /\ PlaySettle(i, "rtsp", FALSE)
        => retryTimeout'[i] # "null" /\ retryTimers'[i] > 0 ]_vars


\* --------------------------------------------------------------------
\* SpecMedia: fatal media errors and fatal errors of other classes of an
\* engine on an HD device with one HLS camera.  recoverMediaError() either
\* returns or throws; the engine attaches and buffers, the retry timer
\* fires, the page is hidden and shown.
\* --------------------------------------------------------------------
InitMedia == InitWith(TRUE, "hlsjs", OneHls)

NextMedia ==
  \/ cameras = {} /\ SetupGrid({})
  \/ Hide
  \/ Show({})
  \/ HdStartFire
  \/ \E i \in Slots : MediaAttached(i)
  \/ \E i \in Slots : FragBuffered(i)
  \/ \E i \in Slots, type \in {"media", "other"}, recoverThrows \in BOOLEAN :
       FatalError(i, type, recoverThrows)
  \/ \E i \in Slots : RetryFire(i, {})

SpecMedia == InitMedia /\ [][NextMedia]_vars

\* The engine of slot i is released and a retry timer is pending.
ReleasedAndRetrying(i) ==
  /\ hls'[i] = "null" /\ engines'[i] = engines[i] - 1
  /\ retryTimeout'[i] # "null" /\ retryTimers'[i] > 0

\* C30: a fatal media error of a live session's engine keeps the engine and
\* schedules nothing when recoverMediaError() returns, and releases the
\* engine and schedules a retry when it throws; a fatal error that is
\* neither a network nor a media error releases the engine and schedules a
\* retry in every case.
C30_MediaAndOtherErrors ==
  [][ \A i \in Slots :
        Live(St, i) =>
          /\ FatalError(i, "media", FALSE) =>
               UNCHANGED << hls, engines, hlsLoading, retryTimeout,
                            retryTimers, retryCount, placeholder >>
          /\ FatalError(i, "media", TRUE) => ReleasedAndRetrying(i)
          /\ (\E b \in BOOLEAN : FatalError(i, "other", b))
               => ReleasedAndRetrying(i) ]_vars

\* recoverMediaError() has thrown: the engine is gone, the placeholder says
\* so and the retry is pending.
C30_MediaRecoveryThrew ==
  \E i \in Slots :
    /\ placeholder[i] = "Media error" /\ hls[i] = "null"
    /\ retryTimers[i] > 0


\* --------------------------------------------------------------------
\* SpecCleanup: cleanups in which a call throws.  An HD device with hls.js
\* and one HLS camera; the engine attaches and fails, the user forces
\* recoveries, applies settings and destroys the session, the page is
\* hidden and shown.  Before any step one call of the next cleanup
\* (stopLoad, detachMedia, destroy, or pause of the element) may be set to
\* throw.
\* --------------------------------------------------------------------
MaxUndisposed == 2  \* engines of one sink that were never destroyed

CleanupFault(f) ==
  /\ cleanupThrows = "none" /\ f # "none"
  /\ \A i \in Slots : engines[i] < MaxUndisposed
  /\ Apply([St EXCEPT !.cleanupThrows = f])

InitCleanup == InitWith(TRUE, "hlsjs", OneHls)

NextCleanup ==
  \/ cameras = {} /\ SetupGrid({})
  \/ \E f \in Faults : CleanupFault(f)
  \/ Hide
  \/ Show({})
  \/ HdStartFire
  \/ ApplySettings(0, {})
  \/ ForceRecover(0)
  \/ \E i \in Slots : DestroyCamera(i)
  \/ \E i \in Slots : MediaAttached(i)
  \/ \E i \in Slots : EarlyFatalError(i, "other")
  \/ \E i \in Slots : RetryFire(i, {})
  \/ \E i \in Slots, b \in BOOLEAN : RecovFire(i, b, {})

SpecCleanup == InitCleanup /\ [][NextCleanup]_vars

\* C31: a step after which a session no longer refers to the engine it
\* referred to has disposed that engine: one engine less of its sink is
\* undisposed.
C31_ReleasedEngineDisposed ==
  [][ \A i \in Slots :
        hls[i] # "null" /\ hls'[i] = "null" =>
          engines'[i] = engines[i] - 1 ]_vars

\* ------------------------------------------------ swallowed exceptions
\* The state the operation would end in had no call thrown.
Clean == [St EXCEPT !.cleanupThrows = "none"]

\* The state after the step is r in everything but what the call that threw
\* was to change itself: the disposal of the engine, its loading, the
\* element's pause and source, and the fault that was consumed.
SessionAs(r) ==
  [St' EXCEPT !.engines = r.engines, !.hlsLoading = r.hlsLoading,
              !.paused = r.paused, !.src = r.src,
              !.cleanupThrows = r.cleanupThrows] = r

C33_ConcurrentStart ==
  [][ SetupGrid({}) /\ isHDMode =>
        /\ \A i \in Slots :
             url[i] # "none" => i \in cameras' /\ hls'[i] = "created"
        /\ ~isInitializing'
        /\ initQueue' = << >>
        /\ healthCheckInterval' = isPageVisible ]_vars

\* C33 with the visibility guard of initializeStream: with isHDMode,
\* setupGrid creates every configured slot; on a visible page it starts the
\* stream of each slot that has a URL and the health monitor within the
\* call, with no sequencer run; on a hidden page it starts no stream and no
\* monitor, and the next show starts every slot's stream at once.
C33_ConcurrentStartWhenVisible ==
  [][ /\ SetupGrid({}) /\ isHDMode =>
           /\ \A i \in Slots :
                url[i] # "none" =>
                  /\ i \in cameras'
                  /\ hls'[i] = IF isPageVisible THEN "created" ELSE "null"
           /\ ~isInitializing'
           /\ initQueue' = << >>
           /\ healthCheckInterval' = isPageVisible
      /\ Show({}) /\ isHDMode =>
           /\ \A i \in Slots :
                Live(St, i) /\ url[i] # "none" => hls'[i] = "created"
           /\ ~isInitializing' ]_vars

\* Every slot has its engine while no slot has played yet, and the monitor
\* runs.
C33_AllStartedNonePlaying ==
  /\ isHDMode /\ healthCheckInterval
  /\ \A i \in Slots : hls[i] = "created" /\ hlsLoading[i] /\ paused[i]

\* ------------------------------------------------- retry counter range
\* SpecRetryCount: SpecRetry with the video element's 'error' event (which
\* calls scheduleRetry), manual recoveries and their timers.
NextRetryCount ==
  \/ NextRetry
  \/ \E i \in Slots : VideoError(i)
  \/ ForceRecover(0)
  \/ \E i \in Slots, b \in BOOLEAN : RecovFire(i, b, {})

SpecRetryCount == InitRetry /\ [][NextRetryCount]_vars

\* C34: the retry counter of every session stays within
\* 0 .. maxRetryAttempts, whatever scheduleRetry calls, in-place resumes
\* after network errors, successful plays, recoveries and hide/show happen.
C34_RetryCountInRange ==
  \A i \in Slots : retryCount[i] \in 0 .. maxRetryAttempts

\* A session that has used up all its retries: the next scheduleRetry takes
\* the cooldown branch.
C34_RetriesUsedUp ==
  \E i \in Slots : retryCount[i] = maxRetryAttempts /\ retryTimers[i] > 0

\* ------------------------------------------------------- live edge
MaxPos == 8            \* positions are whole seconds in 0 .. MaxPos
MaxPlayed == 3         \* playback alone gets this far; seeks get further
NoLiveSync == 0 - 1    \* hls.liveSyncPosition is null or undefined
LIVE_EDGE_GAP == 5     \* "liveEdge - currentTime > 5"

LiveSyncPositions == {NoLiveSync} \cup 0 .. MaxPos

\* if (hls.liveSyncPosition): null, undefined and 0 are falsy.
truthy(p) == p # NoLiveSync /\ p # 0

onManifestParsed(s, i, liveSyncPosition) ==
  IF s.isDestroyed[i] THEN s
  ELSE IF truthy(liveSyncPosition)
    THEN [s EXCEPT !.currentTime[i] = liveSyncPosition]
  ELSE s

\* onLevelLoaded with "liveEdge - currentTime >= 5".
onLevelLoadedAtFive(s, i, live, liveSyncPosition) ==
  IF s.isDestroyed[i] THEN s
  ELSE IF live /\ truthy(liveSyncPosition)
          /\ liveSyncPosition - s.currentTime[i] >= LIVE_EDGE_GAP
    THEN [s EXCEPT !.currentTime[i] = liveSyncPosition]
  ELSE s

onLevelLoaded(s, i, live, liveSyncPosition) ==
  IF s.isDestroyed[i] THEN s
  ELSE IF live /\ truthy(liveSyncPosition)
          /\ liveSyncPosition - s.currentTime[i] > LIVE_EDGE_GAP
    THEN [s EXCEPT !.currentTime[i] = liveSyncPosition]
  ELSE s

\* The engine emits its events while its listeners are registered.
ManifestParsed(i, p) ==
  /\ i \in cameras /\ hls[i] \in {"created", "attached"}
  /\ Apply(onManifestParsed(St, i, p))

LevelLoaded(i, live, p) ==
  /\ i \in cameras /\ hls[i] \in {"created", "attached"}
  /\ Apply(onLevelLoaded(St, i, live, p))

\* Playback and element.load() move the position.
TimeUpdate(i, t) ==
  /\ i \in cameras /\ (src[i] \/ hls[i] # "null")
  /\ Apply([St EXCEPT !.currentTime[i] = t])

InitLive == InitWith(TRUE, "hlsjs", OneHls)

NextLive ==
  \/ cameras = {} /\ SetupGrid({})
  \/ \E i \in Slots : MediaAttached(i)
  \/ \E i \in Slots, p \in LiveSyncPositions : ManifestParsed(i, p)
  \/ \E i \in Slots, live \in BOOLEAN, p \in LiveSyncPositions :
       LevelLoaded(i, live, p)
  \/ \E i \in Slots, t \in 0 .. MaxPlayed : TimeUpdate(i, t)
  \/ ForceRecover(0)
  \/ \E i \in Slots, b \in BOOLEAN : RecovFire(i, b, {})
  \/ \E i \in Slots : DestroyCamera(i)

SpecLive == InitLive /\ [][NextLive]_vars

\* C35 as stated: on 'manifest parsed' and on 'level loaded' of a live
\* stream, the position becomes the live-sync position if that is more than
\* 5 seconds ahead of it, and is left unchanged otherwise.
C35_SeekIffFarBehind ==
  [][ \A i \in Slots, p \in 0 .. MaxPos :
        (ManifestParsed(i, p) \/ LevelLoaded(i, TRUE, p)) /\ ~isDestroyed[i] =>
          currentTime'[i] = IF p - currentTime[i] > LIVE_EDGE_GAP
                              THEN p ELSE currentTime[i] ]_vars

\* C35 per handler: 'manifest parsed' sets the position to the live-sync
\* position whenever the engine reports one other than 0, whatever the
\* distance; 'level loaded' sets it only for a live stream whose live-sync
\* position is more than 5 seconds ahead, and leaves it unchanged otherwise.
C35_SeekRule ==
  [][ \A i \in Slots, p \in LiveSyncPositions :
        /\ ManifestParsed(i, p) /\ ~isDestroyed[i] =>
             currentTime'[i] = IF p \in 1 .. MaxPos THEN p ELSE currentTime[i]
        /\ \A live \in BOOLEAN :
             LevelLoaded(i, live, p) /\ ~isDestroyed[i] =>
               currentTime'[i] =
                 IF live /\ p # NoLiveSync
                         /\ p - currentTime[i] > LIVE_EDGE_GAP
                   THEN p ELSE currentTime[i] ]_vars

\* The position of a session with an engine is further than playback got:
\* a handler moved it to the live edge.
C35_JumpedToLiveEdge ==
  \E i \in Slots : hls[i] # "null" /\ currentTime[i] > MaxPlayed

\* ------------------------------------------------ pending-retry flag
\* C36: for every session, retryTimeout is non-null (hasPendingRetry, and
\* the health monitor's reason to skip the session) exactly while a retry
\* callback of the session is scheduled and has neither fired nor been
\* cancelled.
C36_PendingRetryExact ==
  \A i \in cameras : (retryTimeout[i] # "null") = (retryTimers[i] > 0)

\* ------------------------------------------------ sequencer progress
\* SpecSeqLive: one sequencing run from setupGrid under the staggered
\* policy; each session is destroyed or re-applied at most once, from
\* outside, at any moment of the run.  Timers that are pending do fire;
\* whether a stream ever plays is up to the camera.
NextSeqLive ==
  \/ cameras = {} /\ SetupGrid({})
  \/ SeqTimeoutFire({})
  \/ StabFire({})
  \/ \E i \in Slots : MediaAttached(i)
  \/ \E i \in Slots : Playing(i, "moved")
  \/ \E i \in Slots : ~everDestroyed[i] /\ DestroyCamera(i)
  \/ ~everDestroyed[0] /\ ApplySettings(0, {})

SpecSeqLive ==
  /\ InitSeq /\ [][NextSeqLive]_vars
  /\ WF_vars(SeqTimeoutFire({}))
  /\ WF_vars(StabFire({}))

\* C37: whenever isInitializing is true it becomes false again, also when
\* destroyCamera or applySettings hits the slot in flight.
C37_SequencingEnds == isInitializing ~> ~isInitializing

\* ------------------------------------------------------- shutdown
\* destroy(): stops the monitor, destroys every session and removes the
\* visibility listener.
destroy(s) ==
  [destroyAllCameras(stopHealthMonitor(s)) EXCEPT !.visibilityHandler = FALSE]

Destroy == visibilityHandler /\ Apply(destroy(St))

\* SpecShutdown: a manager of either policy that is set up, hidden and shown
\* and then destroyed; nothing calls it after destroy(), only the timers that
\* were pending fire.
InitShutdown == \E hd \in BOOLEAN : InitWith(hd, "hlsjs", AllHls)

NextShutdown ==
  \/ visibilityHandler /\ cameras = {} /\ SetupGrid({})
  \/ Hide
  \/ Show({})
  \/ Destroy
  \/ \E i \in Slots : MediaAttached(i)
  \/ \E i \in Slots : Playing(i, "moved")
  \/ SeqTimeoutFire({})
  \/ StabFire({})
  \/ HdStartFire
  \/ FirstCheckFire(Healthy)
  \/ HealthTick(Healthy)

SpecShutdown == InitShutdown /\ [][NextShutdown]_vars

\* C38: once destroy() has returned, the health monitor stays stopped and
\* the sequencer state stays cleared, whatever timers were pending.
C38_QuietAfterDestroy ==
  ~visibilityHandler =>
    ~healthCheckInterval /\ ~isInitializing /\ initQueue = << >>

\* -------------------------------------------- applySettings on a slot
\* C39: applySettings on a slot that exists, on a visible page, leaves the
\* session as createCameraElement and initializeStream leave a new one: not
\* destroyed, counters zero, the element's stalled/error/waiting/playing
\* listeners installed, and one engine loading when the URL is not empty.
C39_AppliedAsFresh ==
  [][ ApplySettings(0, {}) /\ 0 \in cameras /\ 0 \in grid /\ isPageVisible =>
        /\ ~isDestroyed'[0]
        /\ retryCount'[0] = 0 /\ stallCount'[0] = 0
        /\ videoListeners'[0]
        /\ url[0] = "m3u8" =>
             hls'[0] = "created" /\ hlsLoading'[0] /\ engines'[0] = 1 ]_vars

\* ------------------------------------------------ one poll per sensor
\* C40: a poll request of a sensor that is in flight and was not aborted is
\* the one sensor.abortController refers to, so there is at most one and
\* stopPolling, pauseAll and the 10 s timeout can abort it.
C40_InFlightIsTracked ==
  \A id \in SensorIds : sensorService.sensors[id].orphans = 0

====
